---------------------------- MODULE Spec2Model ----------------------------
(***************************************************************************)
(* Model of the n8n management dashboard: N8NManager (docker_manager.py)   *)
(* and its Flask callers (app.py).                                         *)
(*                                                                         *)
(* Strings are TLA+ strings; characters are read with SubSeq, so the       *)
(* substring tests, the splitting and the semantic-version parsing of the  *)
(* source are computed on the same text the program sees.                  *)
(***************************************************************************)
EXTENDS Integers, Sequences, FiniteSets, TLC

(***************************************************************************)
(* Text helpers (Python str operations used by the source)                 *)
(***************************************************************************)

\* s[i] as a one-character string
Ch(s, i) == SubSeq(s, i, i)

\* Python: sub in s
Contains(sub, s) ==
    \E i \in 1..(Len(s) - Len(sub) + 1) : SubSeq(s, i, i + Len(sub) - 1) = sub

\* Python: s.startswith(pre)
StartsWith(s, pre) == Len(s) >= Len(pre) /\ SubSeq(s, 1, Len(pre)) = pre

\* Python: s.find(c) + 1 for a one-character c (0 when absent)
IndexOf(s, c) ==
    IF \E i \in 1..Len(s) : Ch(s, i) = c
    THEN CHOOSE i \in 1..Len(s) : Ch(s, i) = c /\ \A j \in 1..(i - 1) : Ch(s, j) # c
    ELSE 0

\* Python: s.split(c) for a one-character c
RECURSIVE Split(_, _)
Split(s, c) ==
    LET i == IndexOf(s, c)
    IN  IF i = 0 THEN <<s>>
        ELSE <<SubSeq(s, 1, i - 1)>> \o Split(SubSeq(s, i + 1, Len(s)), c)

Digits == {"0", "1", "2", "3", "4", "5", "6", "7", "8", "9"}

UpperChars == "ABCDEFGHIJKLMNOPQRSTUVWXYZ"

LowerChars == "abcdefghijklmnopqrstuvwxyz"

\* characters in code-point order, as Python compares strings
CodePoints == "+-./0123456789:=@" \o UpperChars \o "_" \o LowerChars

Rank(c) == IndexOf(CodePoints, c)

\* Python: c.lower() for one character
LowerCh(c) ==
    LET i == IndexOf(UpperChars, c)
    IN  IF i = 0 THEN c ELSE Ch(LowerChars, i)

\* Python: s.lower()
RECURSIVE Lower(_)
Lower(s) == IF Len(s) = 0 THEN s ELSE LowerCh(Ch(s, 1)) \o Lower(SubSeq(s, 2, Len(s)))

\* Python: sub in s.lower(), for a lower-case sub: lower() works character by
\* character, so it is applied to each window of s
InLower(sub, s) ==
    \E i \in 1..(Len(s) - Len(sub) + 1) : Lower(SubSeq(s, i, i + Len(sub) - 1)) = sub

\* Python: re.match("^[0-9]+$", s)
IsDigits(s) == Len(s) > 0 /\ \A i \in 1..Len(s) : Ch(s, i) \in Digits

DigitVal(c) == IndexOf("0123456789", c) - 1

\* Python: int(s) for a string of digits
RECURSIVE ToInt(_)
ToInt(s) ==
    IF Len(s) = 0 THEN 0
    ELSE 10 * ToInt(SubSeq(s, 1, Len(s) - 1)) + DigitVal(Ch(s, Len(s)))

\* Python: str comparison a < b (lexicographic by code point)
RECURSIVE StrLess(_, _)
StrLess(a, b) ==
    IF Len(b) = 0 THEN FALSE
    ELSE IF Len(a) = 0 THEN TRUE
    ELSE IF Ch(a, 1) = Ch(b, 1)
         THEN StrLess(SubSeq(a, 2, Len(a)), SubSeq(b, 2, Len(b)))
         ELSE Rank(Ch(a, 1)) < Rank(Ch(b, 1))

Cmp(a, b) == IF a < b THEN -1 ELSE IF a > b THEN 1 ELSE 0

(***************************************************************************)
(* semver.Version: parse and comparison, as the source uses them           *)
(***************************************************************************)

\* (0|[1-9]\d*)
IsNumericId(s) == IsDigits(s) /\ (Len(s) = 1 \/ Ch(s, 1) # "0")

\* [0-9a-zA-Z-]+
IsIdChars(s) ==
    /\ Len(s) > 0
    /\ \A i \in 1..Len(s) :
          \/ Ch(s, i) \in Digits
          \/ Ch(s, i) = "-"
          \/ IndexOf(UpperChars, Ch(s, i)) # 0
          \/ IndexOf(LowerChars, Ch(s, i)) # 0

\* (0|[1-9]\d*|\d*[a-zA-Z-][0-9a-zA-Z-]*)
IsPrereleaseId(s) == IsIdChars(s) /\ (IsDigits(s) => IsNumericId(s))

NoVersion == [ok |-> FALSE]

\* semver.Version.parse(s): NoVersion stands for the ValueError it raises
VersionParse(s) ==
    LET plus  == IndexOf(s, "+")
        head  == IF plus = 0 THEN s ELSE SubSeq(s, 1, plus - 1)
        build == IF plus = 0 THEN "" ELSE SubSeq(s, plus + 1, Len(s))
        dash  == IndexOf(head, "-")
        core  == IF dash = 0 THEN head ELSE SubSeq(head, 1, dash - 1)
        pre   == IF dash = 0 THEN "" ELSE SubSeq(head, dash + 1, Len(head))
        nums  == Split(core, ".")
        pres  == Split(pre, ".")
        blds  == Split(build, ".")
    IN  IF /\ Len(nums) = 3
           /\ \A i \in 1..3 : IsNumericId(nums[i])
           /\ (dash # 0 => \A i \in 1..Len(pres) : IsPrereleaseId(pres[i]))
           /\ (plus # 0 => \A i \in 1..Len(blds) : IsIdChars(blds[i]))
        THEN [ok |-> TRUE, major |-> ToInt(nums[1]), minor |-> ToInt(nums[2]),
              patch |-> ToInt(nums[3]), prerelease |-> pre, build |-> build]
        ELSE NoVersion

\* semver's comparison of two prerelease identifiers
CmpPrereleaseTag(a, b) ==
    IF IsDigits(a) /\ IsDigits(b) THEN Cmp(ToInt(a), ToInt(b))
    ELSE IF IsDigits(a) THEN -1
    ELSE IF IsDigits(b) THEN 1
    ELSE IF StrLess(a, b) THEN -1 ELSE IF StrLess(b, a) THEN 1 ELSE 0

RECURSIVE CmpParts(_, _, _, _)
CmpParts(ap, bp, a, b) ==
    IF Len(ap) = 0 \/ Len(bp) = 0 THEN Cmp(Len(a), Len(b))
    ELSE LET c == CmpPrereleaseTag(Head(ap), Head(bp))
         IN  IF c # 0 THEN c ELSE CmpParts(Tail(ap), Tail(bp), a, b)

\* semver._nat_cmp
NatCmp(a, b) == CmpParts(Split(a, "."), Split(b, "."), a, b)

\* semver.Version.compare: major, minor, patch, then the prerelease; the
\* build metadata takes no part
VersionCompare(v, w) ==
    IF v.major # w.major THEN Cmp(v.major, w.major)
    ELSE IF v.minor # w.minor THEN Cmp(v.minor, w.minor)
    ELSE IF v.patch # w.patch THEN Cmp(v.patch, w.patch)
    ELSE LET rc == NatCmp(v.prerelease, w.prerelease)
         IN  IF rc = 0 THEN 0
             ELSE IF v.prerelease = "" THEN 1
             ELSE IF w.prerelease = "" THEN -1
             ELSE rc

VersionLess(v, w) == VersionCompare(v, w) < 0


(***************************************************************************)
(* Results of operations: a returned value, or the raised exception's text *)
(***************************************************************************)

Ok(v) == [ok |-> TRUE, value |-> v]

\* raise Exception(f"{context}: {str(e)}")
Raise(msg) == [ok |-> FALSE, error |-> msg]

Wrapped(context, msg) == Raise(context \o ": " \o msg)

(***************************************************************************)
(* Bounds of the model                                                     *)
(***************************************************************************)

\* registry pages one listing is served in
MaxPages == 2

\* tags on one registry page
MaxPageLen == 2

\* the limit argument of get_available_versions
MaxLimit == 3

(***************************************************************************)
(* Version Catalog Fetcher: N8NManager.get_available_versions              *)
(***************************************************************************)

\* tag names the registry may list
RegistryTags ==
    {"latest", "next", "1.2.3", "1.2.3-amd64", "1.2.3-rc1", "1.2.3-Beta",
     "1.2.3-foo", "1.2.3+b1", "1.10.0", "1.9.0", "1.2"}

\* the release-metadata answers: no answer (any failure, a non-200 status),
\* or the latest release's tag_name and prerelease flag
GithubResponses ==
    {[status |-> 500, tag_name |-> "", prerelease |-> FALSE],
     [status |-> 200, tag_name |-> "n8n@2.0.0", prerelease |-> FALSE],
     [status |-> 200, tag_name |-> "n8n@2.0.0", prerelease |-> TRUE]}

NoLatest == "None"

\* lines 39-60: the latest production release, prefixes stripped
LatestProductionVersion(gh) ==
    IF gh.status # 200 THEN NoLatest
    ELSE LET t1 == IF StartsWith(gh.tag_name, "n8n@")
                   THEN SubSeq(gh.tag_name, 5, Len(gh.tag_name)) ELSE gh.tag_name
             t2 == IF StartsWith(t1, "v") THEN SubSeq(t1, 2, Len(t1)) ELSE t1
         IN  IF gh.prerelease THEN NoLatest ELSE t2

ArchSuffixes == {"-amd64", "-arm64"}

PreMarkers == {"-exp.", "-exp", ".exp", "-alpha", "-beta", "-rc", ".alpha", ".beta", ".rc"}

\* lines 76-102: whether a tag is appended to versions
TagAccepted(tag_name) ==
    /\ tag_name \notin {"latest", "next"}
    /\ ~\E arch \in ArchSuffixes : Contains(arch, tag_name)
    /\ ~\E pre \in PreMarkers : InLower(pre, tag_name)
    /\ VersionParse(tag_name).ok
    /\ VersionParse(tag_name).prerelease = ""

\* lines 72-105: the for loop over one page's results
RECURSIVE ScanPage(_, _, _)
ScanPage(results, versions, limit) ==
    IF Len(results) = 0 THEN versions
    ELSE LET tag == Head(results)
         IN  IF ~TagAccepted(tag.name)
             THEN ScanPage(Tail(results), versions, limit)
             ELSE LET more == Append(versions,
                                     [version |-> tag.name, updated |-> tag.last_updated,
                                      is_latest |-> FALSE])
                  IN  IF Len(more) >= limit THEN more
                      ELSE ScanPage(Tail(results), more, limit)

\* list.sort(key=..., reverse=True): stable, descending by parsed version
RECURSIVE InsertDesc(_, _)
InsertDesc(sorted, e) ==
    IF Len(sorted) = 0 THEN <<e>>
    ELSE IF VersionLess(VersionParse(Head(sorted).version), VersionParse(e.version))
         THEN <<e>> \o sorted
         ELSE <<Head(sorted)>> \o InsertDesc(Tail(sorted), e)

RECURSIVE SortVersions(_)
SortVersions(versions) ==
    IF Len(versions) = 0 THEN <<>>
    ELSE InsertDesc(SortVersions(SubSeq(versions, 1, Len(versions) - 1)),
                    versions[Len(versions)])

\* lines 118-122: mark the first entry equal to the latest production version
MarkLatest(versions, latest) ==
    IF latest = NoLatest \/ latest = "" THEN versions
    ELSE IF \E i \in 1..Len(versions) : versions[i].version = latest
         THEN LET k == CHOOSE i \in 1..Len(versions) :
                          /\ versions[i].version = latest
                          /\ \A j \in 1..(i - 1) : versions[j].version # latest
              IN  [versions EXCEPT ![k].is_latest = TRUE]
         ELSE versions

\* lines 114-124: the sort, the latest marker, the cut to limit
FinishVersions(versions, latest, limit) ==
    LET marked == MarkLatest(SortVersions(versions), latest)
    IN  SubSeq(marked, 1, IF Len(marked) < limit THEN Len(marked) ELSE limit)

(***************************************************************************)
(* Status Inspector: N8NManager.get_container_status                       *)
(***************************************************************************)

\* Python's None, where the source returns or tests it
None == "<None>"

\* self.image_name (line 13)
image_name == "n8nio/n8n"

\* the engine has no container under the managed name
NoContainer == [exists |-> FALSE]

\* the label keys tried in order (lines 156-161); "" is an absent label
LabelVersion(labels) ==
    IF labels.oci # "" THEN labels.oci
    ELSE IF labels.version # "" THEN labels.version
    ELSE IF labels.n8n # "" THEN labels.n8n
    ELSE labels.io_n8n

\* Python: s.replace(c, "") for a one-character c
RECURSIVE Without(_, _)
Without(s, c) ==
    IF Len(s) = 0 THEN s
    ELSE (IF Ch(s, 1) = c THEN "" ELSE Ch(s, 1)) \o Without(SubSeq(s, 2, Len(s)), c)

\* lines 169-172: a repo tag whose tag part looks like a version number
LooksNumeric(repo_tag) ==
    LET parts    == Split(repo_tag, ":")
        tag_part == parts[Len(parts)]
    IN  /\ Contains(":", repo_tag)
        /\ ~(Len(repo_tag) >= 7 /\ SubSeq(repo_tag, Len(repo_tag) - 6, Len(repo_tag)) = ":latest")
        /\ IsDigits(Without(Without(tag_part, "."), "-"))

\* lines 150-176 and 616-640: what the floating tag "latest" resolves to
ResolveLatest(image) ==
    IF LabelVersion(image.labels) # "" THEN LabelVersion(image.labels)
    ELSE IF \E i \in 1..Len(image.tags) : LooksNumeric(image.tags[i])
         THEN LET k  == CHOOSE i \in 1..Len(image.tags) :
                           /\ LooksNumeric(image.tags[i])
                           /\ \A j \in 1..(i - 1) : ~LooksNumeric(image.tags[j])
                  ps == Split(image.tags[k], ":")
              IN  ps[Len(ps)]
         ELSE "latest"

\* lines 139-147 and 608-612: the version part of the first tag naming the image;
\* NoTag when no tag names the image, "unknown" when that tag has not two parts
NoTag == "<no tag>"

FirstTagVersion(tags) ==
    IF \E i \in 1..Len(tags) : Contains(image_name, tags[i])
    THEN LET k     == CHOOSE i \in 1..Len(tags) :
                          /\ Contains(image_name, tags[i])
                          /\ \A j \in 1..(i - 1) : ~Contains(image_name, tags[j])
             parts == Split(tags[k], ":")
         IN  IF Len(parts) = 2 THEN parts[2] ELSE "unknown"
    ELSE NoTag

\* lines 139-176
CurrentVersion(image) ==
    LET v == FirstTagVersion(image.tags)
    IN  IF v = NoTag THEN "unknown"
        ELSE IF v = "latest" THEN ResolveLatest(image)
        ELSE v

\* lines 181-196
Health(c) ==
    IF c.health # "" THEN c.health
    ELSE IF c.status = "running" THEN "healthy (no health check)"
    ELSE IF c.status \in {"stopped", "exited"} THEN "stopped"
    ELSE "unknown"

\* lines 198-241: the resource fields; percentages in hundredths, as round(x, 2)
\* keeps them (rounded down here)
Resources(c) ==
    IF c.status = "running" /\ c.stats.ok
    THEN LET cpu_delta    == c.stats.cpu_total - c.stats.precpu_total
             system_delta == c.stats.system - c.stats.presystem
             num_cpus     == IF c.stats.percpu = 0 THEN 1 ELSE c.stats.percpu
         IN  [cpu_percent    |-> IF system_delta > 0 /\ cpu_delta > 0
                                 THEN (cpu_delta * num_cpus * 10000) \div system_delta
                                 ELSE None,
              memory_usage   |-> c.stats.mem_usage,
              memory_limit   |-> c.stats.mem_limit,
              memory_percent |-> IF c.stats.mem_limit > 0
                                 THEN (c.stats.mem_usage * 10000) \div c.stats.mem_limit
                                 ELSE None]
    ELSE [cpu_percent |-> None, memory_usage |-> None, memory_limit |-> None,
          memory_percent |-> None]

\* get_container_status, without the NotFound clause of lines 253-263
get_container_status_Raises(c, engine_ok) ==
    IF ~engine_ok THEN Wrapped("Failed to get container status", "engine unreachable")
    ELSE IF ~c.exists
    THEN Wrapped("Failed to get container status", "No such container")
    ELSE Ok([status |-> c.status, current_version |-> CurrentVersion(c.image),
             started_at |-> c.started_at, health |-> Health(c),
             cpu_percent |-> Resources(c).cpu_percent,
             memory_usage |-> Resources(c).memory_usage,
             memory_limit |-> Resources(c).memory_limit,
             memory_percent |-> Resources(c).memory_percent])

\* lines 135-265; engine_ok is whether the engine answers the lookup
get_container_status(c, engine_ok) ==
    IF ~engine_ok THEN Wrapped("Failed to get container status", "engine unreachable")
    ELSE IF ~c.exists
    THEN Ok([status |-> "not_found", current_version |-> None, started_at |-> None,
             health |-> None, cpu_percent |-> None, memory_usage |-> None,
             memory_limit |-> None, memory_percent |-> None])
    ELSE Ok([status |-> c.status, current_version |-> CurrentVersion(c.image),
             started_at |-> c.started_at, health |-> Health(c),
             cpu_percent |-> Resources(c).cpu_percent,
             memory_usage |-> Resources(c).memory_usage,
             memory_limit |-> Resources(c).memory_limit,
             memory_percent |-> Resources(c).memory_percent])

(***************************************************************************)
(* Pre-Upgrade Checker: N8NManager.pre_upgrade_checks                      *)
(***************************************************************************)

\* Python: str(n) for n >= 0
RECURSIVE IntStr(_)
IntStr(n) ==
    IF n < 10 THEN Ch("0123456789", n + 1)
    ELSE IntStr(n \div 10) \o Ch("0123456789", (n % 10) + 1)

\* lines 337-340
MajorJumpWarning(current_version, target_version) ==
    "Major version jump detected: " \o current_version \o " -> " \o target_version
    \o ". Please review n8n release notes for breaking changes."

\* lines 346-349; minor_diff > 10 where this is built
LargeGapWarning(minor_diff) ==
    "Large version gap detected (" \o IntStr(minor_diff)
    \o " minor versions). Consider incremental upgrades."

\* lines 353-356
DowngradeWarning(current_version, target_version) ==
    "Downgrading from " \o current_version \o " to " \o target_version
    \o ". This may cause data compatibility issues."

\* line 329
UnknownVersionWarning == "Current version unknown, proceeding with caution"

\* the ValueError text of semver.Version.parse
NotSemVer(s) == s \o " is not valid SemVer string"

\* line 345: the gap from which a jump of minor versions is large
LargeGap == 10

\* line 359: all("consider" in w.lower() for w in warnings)
AllConsider(warnings) ==
    \A i \in 1..Len(warnings) : InLower("consider", warnings[i])

\* line 359
Safe(warnings) == Len(warnings) = 0 \/ AllConsider(warnings)

\* Warnings, with a gap of LargeGap minor versions already large
Warnings_GapInclusive(current_version, target_version) ==
    LET current == VersionParse(current_version)
        target  == VersionParse(target_version)
    IN  (IF target.major > current.major
         THEN <<MajorJumpWarning(current_version, target_version)>> ELSE <<>>)
        \o (IF target.major = current.major /\ target.minor - current.minor >= LargeGap
            THEN <<LargeGapWarning(target.minor - current.minor)>> ELSE <<>>)
        \o (IF VersionLess(target, current)
            THEN <<DowngradeWarning(current_version, target_version)>> ELSE <<>>)

\* Warnings, with the minor gap measured across major versions too
Warnings_GapAcrossMajors(current_version, target_version) ==
    LET current == VersionParse(current_version)
        target  == VersionParse(target_version)
    IN  (IF target.major > current.major
         THEN <<MajorJumpWarning(current_version, target_version)>> ELSE <<>>)
        \o (IF target.minor - current.minor > LargeGap
            THEN <<LargeGapWarning(target.minor - current.minor)>> ELSE <<>>)
        \o (IF VersionLess(target, current)
            THEN <<DowngradeWarning(current_version, target_version)>> ELSE <<>>)

\* lines 336-356: the warnings of two parsed versions, in the source's order
Warnings(current_version, target_version) ==
    LET current == VersionParse(current_version)
        target  == VersionParse(target_version)
    IN  (IF target.major > current.major
         THEN <<MajorJumpWarning(current_version, target_version)>> ELSE <<>>)
        \o (IF target.major = current.major /\ target.minor - current.minor > LargeGap
            THEN <<LargeGapWarning(target.minor - current.minor)>> ELSE <<>>)
        \o (IF VersionLess(target, current)
            THEN <<DowngradeWarning(current_version, target_version)>> ELSE <<>>)

\* pre_upgrade_checks, without the except clause of lines 362-366
pre_upgrade_checks_Raises(status, target_version) ==
    IF ~status.ok THEN Raise(status.error)
    ELSE LET current_version == status.value.current_version
         IN  IF current_version \in {None, "", "unknown"}
             THEN Ok([safe |-> TRUE, warnings |-> <<UnknownVersionWarning>>])
             ELSE IF ~VersionParse(current_version).ok
             THEN Raise(NotSemVer(current_version))
             ELSE IF ~VersionParse(target_version).ok
             THEN Raise(NotSemVer(target_version))
             ELSE LET warnings == Warnings(current_version, target_version)
                  IN  Ok([safe |-> Safe(warnings), warnings |-> warnings])

\* lines 320-366; status is what get_container_status returned or raised
pre_upgrade_checks(status, target_version) ==
    IF ~status.ok
    THEN Ok([safe |-> FALSE, warnings |-> <<"Version check failed: " \o status.error>>])
    ELSE LET current_version == status.value.current_version
         IN  IF current_version \in {None, "", "unknown"}
             THEN Ok([safe |-> TRUE, warnings |-> <<UnknownVersionWarning>>])
             ELSE IF ~VersionParse(current_version).ok
             THEN Ok([safe |-> FALSE, warnings |->
                        <<"Version check failed: " \o NotSemVer(current_version)>>])
             ELSE IF ~VersionParse(target_version).ok
             THEN Ok([safe |-> FALSE, warnings |->
                        <<"Version check failed: " \o NotSemVer(target_version)>>])
             ELSE LET warnings == Warnings(current_version, target_version)
                  IN  Ok([safe |-> Safe(warnings), warnings |-> warnings])

(***************************************************************************)
(* Dictionaries (Python dict): a sequence of [k, v] pairs in insertion     *)
(* order, keys unique                                                      *)
(***************************************************************************)

HasKey(d, k) == \E i \in 1..Len(d) : d[i].k = k

\* d[k] = v
DictSet(d, k, v) ==
    IF HasKey(d, k)
    THEN [i \in 1..Len(d) |-> IF d[i].k = k THEN [k |-> k, v |-> v] ELSE d[i]]
    ELSE Append(d, [k |-> k, v |-> v])

(***************************************************************************)
(* Upgrade Orchestrator, capture: N8NManager.update_to_version lines 389-433*)
(***************************************************************************)

\* lines 396-399: Env entries with "=" split at the first "="
RECURSIVE ParseEnv(_, _)
ParseEnv(env_vars, env_dict) ==
    IF Len(env_vars) = 0 THEN env_dict
    ELSE LET env == Head(env_vars)
             i   == IndexOf(env, "=")
         IN  IF i = 0 THEN ParseEnv(Tail(env_vars), env_dict)
             ELSE ParseEnv(Tail(env_vars),
                           DictSet(env_dict, SubSeq(env, 1, i - 1), SubSeq(env, i + 1, Len(env))))

\* line 410: int(container_port.split("/")[0])
PortNum(container_port) == ToInt(Split(container_port, "/")[1])

\* lines 402-411: whether int(host_bindings[0]["HostPort"]) raises ValueError
PortsRaise(port_bindings) ==
    \E i \in 1..Len(port_bindings) :
        /\ Len(port_bindings[i].v) > 0
        /\ ~IsDigits(port_bindings[i].v[1].HostPort)

\* lines 404-411: ports_config from a non-empty PortBindings
RECURSIVE CapturePorts(_, _)
CapturePorts(port_bindings, ports_config) ==
    IF Len(port_bindings) = 0 THEN ports_config
    ELSE LET b == Head(port_bindings)
         IN  IF Len(b.v) = 0 THEN CapturePorts(Tail(port_bindings), ports_config)
             ELSE CapturePorts(Tail(port_bindings),
                               DictSet(ports_config, PortNum(b.k), ToInt(b.v[1].HostPort)))

\* lines 416-426: volumes_config from a non-empty Mounts; "" is an absent key
RECURSIVE CaptureVolumes(_, _)
CaptureVolumes(mounts, volumes_config) ==
    IF Len(mounts) = 0 THEN volumes_config
    ELSE LET mount == Head(mounts)
         IN  IF mount.Type = "volume" /\ mount.Name # "" /\ mount.Destination # ""
             THEN CaptureVolumes(Tail(mounts),
                                 DictSet(volumes_config, mount.Name,
                                         [bind |-> mount.Destination, mode |-> mount.Mode]))
             ELSE CaptureVolumes(Tail(mounts), volumes_config)

\* a config variable that is None
Unset == [none |-> TRUE, items |-> <<>>]

Dict(items) == [none |-> FALSE, items |-> items]

\* Python truthiness of a dict-or-None
Truthy(cfg) == ~cfg.none /\ Len(cfg.items) > 0

\* lines 384-433: the captured configuration of container c
Capture(c) ==
    [env_dict       |-> ParseEnv(c.Env, <<>>),
     ports_config   |-> IF Len(c.PortBindings) > 0
                        THEN Dict(CapturePorts(c.PortBindings, <<>>)) ELSE Unset,
     volumes_config |-> IF Len(c.Mounts) > 0
                        THEN Dict(CaptureVolumes(c.Mounts, <<>>)) ELSE Unset,
     network_config |-> IF Len(c.Networks) > 0 THEN c.Networks[1] ELSE None]

\* lines 384-387: the configuration before anything is captured
NoCapture ==
    [env_dict |-> <<>>, ports_config |-> Unset, volumes_config |-> Unset,
     network_config |-> None]

\* line 450
DefaultPort == 5678

\* lines 450, 475
DefaultPorts == <<[k |-> DefaultPort, v |-> DefaultPort]>>

\* lines 451, 483, 487
DefaultVolumes ==
    <<[k |-> "n8n_data", v |-> [bind |-> "/home/node/.n8n", mode |-> "rw"]]>>

\* lines 446-451: the NotFound handler overwrites ports and volumes only
UseDefaults(cfg) ==
    [cfg EXCEPT !.ports_config = Dict(DefaultPorts), !.volumes_config = Dict(DefaultVolumes)]

(***************************************************************************)
(* Upgrade Orchestrator, create: lines 457-519                             *)
(***************************************************************************)

\* line 457
ImageTag(target_version) == image_name \o ":" \o target_version

\* lines 465-476
PortBindingsDict(ports_config) ==
    IF Truthy(ports_config) THEN ports_config.items ELSE DefaultPorts

\* line 479
EnvList(env_dict) == [i \in 1..Len(env_dict) |-> env_dict[i].k \o "=" \o env_dict[i].v]

\* lines 483-496
ValidatedVolumes(volumes_config) ==
    IF Truthy(volumes_config) THEN volumes_config.items ELSE DefaultVolumes

\* line 503: binds={vol_name: vol_config["bind"]}: a bind given as a plain
\* path is mounted read-write by the engine client
Binds(validated_volumes) ==
    [i \in 1..Len(validated_volumes) |->
        [Name |-> validated_volumes[i].k, Destination |-> validated_volumes[i].v.bind,
         Mode |-> "rw"]]

\* lines 500-519: the arguments of create_host_config and create_container
CreateArgs(cfg, target_version, name) ==
    [image         |-> ImageTag(target_version),
     name          |-> name,
     ports         |-> [i \in 1..Len(PortBindingsDict(cfg.ports_config)) |->
                           PortBindingsDict(cfg.ports_config)[i].k],
     port_bindings |-> PortBindingsDict(cfg.ports_config),
     restart_policy |-> "unless-stopped",
     binds         |-> Binds(ValidatedVolumes(cfg.volumes_config)),
     environment   |-> EnvList(cfg.env_dict),
     volumes       |-> [i \in 1..Len(ValidatedVolumes(cfg.volumes_config)) |->
                           ValidatedVolumes(cfg.volumes_config)[i].v.bind]]

\* lines 532-534: the networks tried after the direct reconnect failed
FallbackNetworks(all_networks, network_config) ==
    SelectSeq(all_networks,
              LAMBDA net : InLower("web", net) \/ Contains(network_config, net))

(***************************************************************************)
(* Local Image Inventory: N8NManager.get_local_images                      *)
(***************************************************************************)

\* lines 608-612: the first tag naming the image that has exactly two parts
HasVersionTag(image) ==
    \E i \in 1..Len(image.tags) :
        Contains(image_name, image.tags[i]) /\ Len(Split(image.tags[i], ":")) = 2

TagVersion(image) ==
    LET k == CHOOSE i \in 1..Len(image.tags) :
                /\ Contains(image_name, image.tags[i])
                /\ Len(Split(image.tags[i], ":")) = 2
                /\ \A j \in 1..(i - 1) :
                      ~(Contains(image_name, image.tags[j])
                        /\ Len(Split(image.tags[j], ":")) = 2)
    IN  Split(image.tags[k], ":")[2]

\* lines 607-646: one result entry per image that has such a tag
RECURSIVE ImageEntries(_)
ImageEntries(store) ==
    IF Len(store) = 0 THEN <<>>
    ELSE LET image == Head(store)
         IN  (IF HasVersionTag(image)
              THEN <<[version |-> IF TagVersion(image) = "latest"
                                  THEN ResolveLatest(image) ELSE TagVersion(image),
                      created |-> image.created]>>
              ELSE <<>>) \o ImageEntries(Tail(store))

\* line 649: result.sort(key=created, reverse=True): stable, newest first
RECURSIVE InsertByCreated(_, _)
InsertByCreated(sorted, e) ==
    IF Len(sorted) = 0 THEN <<e>>
    ELSE IF StrLess(Head(sorted).created, e.created) THEN <<e>> \o sorted
    ELSE <<Head(sorted)>> \o InsertByCreated(Tail(sorted), e)

RECURSIVE SortByCreated(_)
SortByCreated(entries) ==
    IF Len(entries) = 0 THEN <<>>
    ELSE InsertByCreated(SortByCreated(SubSeq(entries, 1, Len(entries) - 1)),
                         entries[Len(entries)])

\* lines 603-652; engine_ok is whether the engine answers images.list
get_local_images(store, engine_ok) ==
    IF ~engine_ok THEN Wrapped("Failed to get local images", "engine unreachable")
    ELSE Ok(SortByCreated(ImageEntries(store)))

(***************************************************************************)
(* Rollback Selector: N8NManager.rollback_to_previous, lines 567-590       *)
(***************************************************************************)

\* Python: f"{x}" of a string or None
Fmt(x) == IF x = None THEN "None" ELSE x

\* lines 572-583: the selected version, None when no image differs
RollbackVersion(imgs, current_version) ==
    IF Len(imgs) > 1 /\ imgs[2].version # current_version THEN imgs[2].version
    ELSE IF \E i \in 1..Len(imgs) : imgs[i].version # current_version
         THEN LET k == CHOOSE i \in 1..Len(imgs) :
                          /\ imgs[i].version # current_version
                          /\ \A j \in 1..(i - 1) : imgs[j].version = current_version
              IN  imgs[k].version
         ELSE None

\* RollbackChoice, asking for one image only
RollbackChoice_OneImage(imgs, current_version) ==
    IF Len(imgs) < 1 THEN Raise("No previous version found locally")
    ELSE LET rollback_version == RollbackVersion(imgs, current_version)
         IN  IF rollback_version \in {None, ""} \/ rollback_version = current_version
             THEN Raise("Already running version " \o Fmt(current_version)
                        \o ". Cannot rollback to the same version.")
             ELSE Ok(rollback_version)

\* lines 566-590: the version to roll back to, or the exception raised
RollbackChoice(imgs, current_version) ==
    IF Len(imgs) < 2 THEN Raise("No previous version found locally")
    ELSE LET rollback_version == RollbackVersion(imgs, current_version)
         IN  IF rollback_version \in {None, ""} \/ rollback_version = current_version
             THEN Raise("Already running version " \o Fmt(current_version)
                        \o ". Cannot rollback to the same version.")
             ELSE Ok(rollback_version)

(***************************************************************************)
(* The container engine, as the source calls it                            *)
(***************************************************************************)

\* self.container_name (line 9)
container_name == "n8n"

NoLabels == [oci |-> "", version |-> "", n8n |-> "", io_n8n |-> ""]

Image(tags, labels, created) == [tags |-> tags, labels |-> labels, created |-> created]

\* the versions the registry serves, with the creation time of each image
RegistryCreated(v) ==
    CASE v = "1.0.0" -> "2024-01-10"
      [] v = "1.1.0" -> "2024-02-10"
      [] v = "1.2.0" -> "2024-03-10"
      [] OTHER -> ""

RegistryVersions == {"1.0.0", "1.1.0", "1.2.0"}

\* images.pull(image_tag): the image the registry serves under the tag
PulledImage(target_version) ==
    Image(<<ImageTag(target_version)>>, NoLabels, RegistryCreated(target_version))

HasTag(store, tag) ==
    \E i \in 1..Len(store) : \E j \in 1..Len(store[i].tags) : store[i].tags[j] = tag

ImageOf(store, tag) ==
    store[CHOOSE i \in 1..Len(store) : \E j \in 1..Len(store[i].tags) : store[i].tags[j] = tag]

\* the image store after a successful pull
AfterPull(store, target_version) ==
    IF HasTag(store, ImageTag(target_version)) THEN store
    ELSE Append(store, PulledImage(target_version))

\* one stats snapshot of a running container
StatsSample ==
    [ok |-> TRUE, cpu_total |-> 300, precpu_total |-> 200, system |-> 5000,
     presystem |-> 4000, percpu |-> 2, mem_usage |-> 256, mem_limit |-> 1024]

\* the network every container is created on
DefaultNetwork == "bridge"

\* create_container(**args): the container object the engine then holds
NewContainer(id, args, store) ==
    [exists |-> TRUE, id |-> id, name |-> args.name, image |-> ImageOf(store, args.image),
     status |-> "created", started_at |-> "", health |-> "", stats |-> StatsSample,
     Env |-> args.environment,
     PortBindings |-> [i \in 1..Len(args.port_bindings) |->
                          [k |-> IntStr(args.port_bindings[i].k) \o "/tcp",
                           v |-> <<[HostIp |-> "", HostPort |-> IntStr(args.port_bindings[i].v)]>>]],
     Mounts |-> <<>>,
     Binds |-> args.binds,
     Networks |-> <<DefaultNetwork>>,
     RestartPolicy |-> args.restart_policy]

\* a container made outside the dashboard (docker run, docker compose)
Container(id, image, cfg) ==
    [exists |-> TRUE, id |-> id, name |-> container_name, image |-> image,
     status |-> "running", started_at |-> "2024-05-01T08:00:00Z", health |-> "",
     stats |-> StatsSample, Env |-> cfg.Env, PortBindings |-> cfg.PortBindings,
     Mounts |-> cfg.Mounts, Binds |-> cfg.Binds, Networks |-> cfg.Networks,
     RestartPolicy |-> "no"]

InSeq(x, seq) == \E i \in 1..Len(seq) : seq[i] = x

(***************************************************************************)
(* State                                                                   *)
(***************************************************************************)

VARIABLES
    container,   \* the engine's container under the managed name, or NoContainer
    images,      \* the engine's local images, in listing order
    networks,    \* the engine's networks, in listing order
    nextId,      \* the id the engine gives the next container
    u,           \* per invocation: the locals of update_to_version / rollback_to_previous
    opsDone,     \* operations begun so far
    check,       \* the last /api/check-upgrade request and its response
    catalog,     \* the last get_available_versions call and its result
    web          \* the Flask app: the sessions, the last request and its response

vars == <<container, images, networks, nextId, u, opsDone, check, catalog, web>>

\* invocations of the manager
Procs == {1}

\* operations begun in one behaviour
MaxOps == 1

\* line 439: container.stop(timeout=60)
StopTimeout == 60

\* callback invocations after which a raising progress callback may raise
MaxEmit == 7

NoCallback == [kind |-> "none", at |-> 0]

\* the callback argument: absent, one that returns, one that raises at its
\* at-th invocation
Callbacks ==
    {NoCallback, [kind |-> "returns", at |-> 0]}
    \cup {[kind |-> "raises", at |-> n] : n \in 1..MaxEmit}

Idle ==
    [pc |-> "idle", op |-> "none", caller |-> "none", target |-> "", cb |-> NoCallback,
     cfg |-> NoCapture, handle |-> 0, new_id |-> 0, candidates |-> <<>>,
     calls |-> <<>>, progress |-> <<>>, exc |-> "", result |-> Ok(None),
     old |-> NoContainer, args |-> <<>>, listed |-> <<>>, current |-> None,
     read_ok |-> FALSE, before |-> NoContainer, backup |-> ""]

(***************************************************************************)
(* update_to_version, line by line: the code between two engine calls      *)
(***************************************************************************)

\* an engine call issued by the invocation, and whether the engine carried it out
Called(op, arg, o) == [op |-> op, arg |-> arg, ok |-> (o = "ok")]

Call(l, op, arg, o) == [l EXCEPT !.calls = Append(@, Called(op, arg, o))]

\* an exception raised inside the outer try
Throw(l, msg) == IF l.exc # "" THEN l ELSE [l EXCEPT !.exc = msg]

\* if callback: callback(msg)
Emit(l, msg) ==
    IF l.exc # "" \/ l.cb.kind = "none" THEN l
    ELSE IF l.cb.kind = "raises" /\ l.cb.at = Len(l.progress) + 1
         THEN [l EXCEPT !.progress = Append(@, msg), !.exc = "progress callback failed"]
         ELSE [l EXCEPT !.progress = Append(@, msg)]

\* Failure, raising the wrapper without the cause's text
Failure_NoCause(l) ==
    IF l.caller = "rollback"
    THEN Wrapped("Failed to rollback", "Failed to update container")
    ELSE Raise("Failed to update container")

\* lines 551-552 and 593-594: the wrapping of whatever was raised
Failure(l) ==
    IF l.caller = "rollback"
    THEN Wrapped("Failed to rollback", "Failed to update container: " \o l.exc)
    ELSE Wrapped("Failed to update container", l.exc)

\* go on at pc, or leave through the outer except
Goto(l, pc) ==
    IF l.exc # "" THEN [l EXCEPT !.pc = "done", !.result = Failure(l)]
    ELSE [l EXCEPT !.pc = pc]

\* lines 446-454: the NotFound handler, then on to the pull
NotFoundHandler(l) ==
    LET l1 == Emit(l, "Container not found, creating new one...")
        l2 == IF l1.exc # "" THEN l1 ELSE [l1 EXCEPT !.cfg = UseDefaults(@)]
    IN  Emit(l2, "Pulling image n8nio/n8n:" \o l.target \o "...")

\* lines 525, 541-542: after the new container object is at hand
AfterAttach(l) == Goto(Emit(l, "Starting new container..."), "start")

(***************************************************************************)
(* Actions: one per engine call of update_to_version, each followed by the *)
(* code up to the next engine call                                         *)
(***************************************************************************)

Free(p) == u[p].pc \in {"idle", "done"} /\ opsDone < MaxOps

\* lines 379-387: the call, with its arguments, up to the container lookup
StartUpdate(caller, target_version, callback, calls) ==
    Goto(Emit([Idle EXCEPT !.op = "update", !.caller = caller, !.target = target_version,
                           !.cb = callback, !.calls = calls],
              "Getting current container configuration..."),
         "capture")

\* update_to_version(target_version, callback)
UpdateBegin(p, target_version, callback) ==
    /\ Free(p)
    /\ u' = [u EXCEPT ![p] = [StartUpdate("api", target_version, callback, <<>>)
                                 EXCEPT !.before = container]]
    /\ opsDone' = opsDone + 1
    /\ UNCHANGED <<container, images, networks, nextId, check, catalog, web>>

\* lines 390-436: containers.get(name), the capture, the first milestone
UpdateCapture(p, o) ==
    /\ u[p].pc = "capture"
    /\ LET l == Call(u[p], "containers.get", container_name,
                       IF o = "ok" /\ ~container.exists THEN "not_found" ELSE o)
       IN  u' = [u EXCEPT ![p] =
                IF o = "error" THEN Goto(Throw(l, "engine error on containers.get"), "")
                ELSE IF ~container.exists THEN Goto(NotFoundHandler(l), "pull")
                ELSE IF PortsRaise(container.PortBindings)
                THEN Goto(Throw([l EXCEPT !.handle = container.id, !.old = container],
                                "invalid literal for int() with base 10"), "")
                ELSE Goto(Emit([l EXCEPT !.cfg = Capture(container),
                                         !.handle = container.id, !.old = container],
                               "Stopping current container..."),
                          "stop")]
    /\ UNCHANGED <<container, images, networks, nextId, opsDone, check, catalog, web>>

\* the engine's answer to a call on the container object held since the lookup:
\* not_found when that container is gone
Held(p) == container.exists /\ container.id = u[p].handle

\* lines 439-442: container.stop(timeout=60)
UpdateStop(p, o) ==
    /\ u[p].pc = "stop"
    /\ o = "ok" => Held(p)
    /\ LET l == Call(u[p], "stop", IntStr(StopTimeout), o)
       IN  u' = [u EXCEPT ![p] =
                IF o = "error" THEN Goto(Throw(l, "engine error on stop"), "")
                ELSE IF o = "not_found" THEN Goto(NotFoundHandler(l), "pull")
                ELSE Goto(Emit(l, "Removing old container..."), "remove")]
    /\ container' = IF o = "ok" THEN [container EXCEPT !.status = "exited"]
                    ELSE IF o = "not_found" /\ Held(p) THEN NoContainer
                    ELSE container
    /\ UNCHANGED <<images, networks, nextId, opsDone, check, catalog, web>>

\* lines 445, 453-454: container.remove()
UpdateRemove(p, o) ==
    /\ u[p].pc = "remove"
    /\ o = "ok" => Held(p)
    /\ LET l == Call(u[p], "remove", "", o)
       IN  u' = [u EXCEPT ![p] =
                IF o = "error" THEN Goto(Throw(l, "engine error on remove"), "")
                ELSE IF o = "not_found" THEN Goto(NotFoundHandler(l), "pull")
                ELSE Goto(Emit(l, "Pulling image n8nio/n8n:" \o l.target \o "..."), "pull")]
    /\ container' = IF o # "error" /\ Held(p) THEN NoContainer ELSE container
    /\ UNCHANGED <<images, networks, nextId, opsDone, check, catalog, web>>

\* lines 457-508: images.pull(image_tag), then the arguments of the create
UpdatePull(p, o) ==
    /\ u[p].pc = "pull"
    /\ o = "ok" => u[p].target \in RegistryVersions
    /\ LET l == Call(u[p], "pull", ImageTag(u[p].target), o)
       IN  u' = [u EXCEPT ![p] =
                IF o = "error"
                THEN Goto(Throw(l, "pull of " \o ImageTag(l.target) \o " failed"), "")
                ELSE Goto(Emit([l EXCEPT !.args = CreateArgs(l.cfg, l.target, container_name)],
                               "Creating new container..."),
                          "create")]
    /\ images' = IF o = "ok" THEN AfterPull(images, u[p].target) ELSE images
    /\ UNCHANGED <<container, networks, nextId, opsDone, check, catalog, web>>

\* lines 512-519: api.create_container(...); the engine refuses a name in use
UpdateCreate(p, o) ==
    /\ u[p].pc = "create"
    /\ o = "ok" => ~container.exists
    /\ LET l == Call(u[p], "create", u[p].args.name, o)
       IN  u' = [u EXCEPT ![p] =
                IF o = "error" THEN Goto(Throw(l, "engine error on create"), "")
                ELSE Goto([l EXCEPT !.new_id = nextId], "get_new")]
    /\ container' = IF o = "ok" THEN NewContainer(nextId, u[p].args, images) ELSE container
    /\ nextId' = IF o = "ok" THEN nextId + 1 ELSE nextId
    /\ UNCHANGED <<images, networks, opsDone, check, catalog, web>>

\* whether the engine still holds the container this invocation created
HeldNew(p) == container.exists /\ container.id = u[p].new_id

\* lines 522-525: containers.get(container_response["Id"])
UpdateGetNew(p, o) ==
    /\ u[p].pc = "get_new"
    /\ o = "ok" => HeldNew(p)
    /\ LET l == Call(u[p], "containers.get", "Id", o)
       IN  u' = [u EXCEPT ![p] =
                IF o = "error" THEN Goto(Throw(l, "engine error on containers.get"), "")
                ELSE IF l.cfg.network_config \in {None, ""} THEN AfterAttach(l)
                ELSE Goto(l, "net_get")]
    /\ UNCHANGED <<container, images, networks, nextId, opsDone, check, catalog, web>>

\* line 527: networks.get(network_config); a failure leads to the fallback
UpdateNetGet(p, o) ==
    /\ u[p].pc = "net_get"
    /\ o = "ok" => InSeq(u[p].cfg.network_config, networks)
    /\ u' = [u EXCEPT ![p] =
                Goto(Call(u[p], "networks.get", u[p].cfg.network_config, o),
                     IF o = "ok" THEN "net_connect" ELSE "net_list")]
    /\ UNCHANGED <<container, images, networks, nextId, opsDone, check, catalog, web>>

\* network.connect(container): refused when the container is gone or is
\* already on the network
CanConnect(p, net) == HeldNew(p) /\ ~InSeq(net, container.Networks)

\* line 528: network.connect(new_container)
UpdateNetConnect(p, o) ==
    /\ u[p].pc = "net_connect"
    /\ o = "ok" => CanConnect(p, u[p].cfg.network_config)
    /\ LET l == Call(u[p], "network.connect", u[p].cfg.network_config, o)
       IN  u' = [u EXCEPT ![p] = IF o = "ok" THEN AfterAttach(l) ELSE Goto(l, "net_list")]
    /\ container' = IF o = "ok"
                    THEN [container EXCEPT !.Networks = Append(@, u[p].cfg.network_config)]
                    ELSE container
    /\ UNCHANGED <<images, networks, nextId, opsDone, check, catalog, web>>

\* lines 532-534: networks.list() inside the except handler: its own failure
\* is not caught there
UpdateNetList(p, o) ==
    /\ u[p].pc = "net_list"
    /\ LET l  == Call(u[p], "networks.list", "", o)
           cs == FallbackNetworks(networks, l.cfg.network_config)
       IN  u' = [u EXCEPT ![p] =
                IF o = "error" THEN Goto(Throw(l, "engine error on networks.list"), "")
                ELSE IF Len(cs) = 0 THEN AfterAttach(l)
                ELSE Goto([l EXCEPT !.candidates = cs], "net_try")]
    /\ UNCHANGED <<container, images, networks, nextId, opsDone, check, catalog, web>>

\* lines 535-539: net.connect(new_container) on the next candidate
UpdateNetTry(p, o) ==
    /\ u[p].pc = "net_try"
    /\ o = "ok" => CanConnect(p, Head(u[p].candidates))
    /\ LET l == Call(u[p], "network.connect", Head(u[p].candidates), o)
       IN  u' = [u EXCEPT ![p] =
                IF o = "ok" \/ Len(l.candidates) = 1
                THEN AfterAttach([l EXCEPT !.candidates = <<>>])
                ELSE Goto([l EXCEPT !.candidates = Tail(@)], "net_try")]
    /\ container' = IF o = "ok"
                    THEN [container EXCEPT !.Networks = Append(@, Head(u[p].candidates))]
                    ELSE container
    /\ UNCHANGED <<images, networks, nextId, opsDone, check, catalog, web>>

\* the time the engine records when a container starts
StartTime == "2024-06-01T08:00:00Z"

\* lines 545-550: new_container.start(), the last milestone, the return
UpdateStart(p, o) ==
    /\ u[p].pc = "start"
    /\ o = "ok" => HeldNew(p)
    /\ LET l  == Call(u[p], "start", "", o)
           l1 == IF o = "error" THEN Throw(l, "engine error on start")
                 ELSE Emit(l, "Upgrade complete!")
       IN  u' = [u EXCEPT ![p] =
                IF l1.exc # "" THEN Goto(l1, "")
                ELSE [l1 EXCEPT !.pc = "done", !.result = Ok(l.new_id)]]
    /\ container' = IF o = "ok"
                    THEN [container EXCEPT !.status = "running", !.started_at = StartTime]
                    ELSE container
    /\ UNCHANGED <<images, networks, nextId, opsDone, check, catalog, web>>

\* rollback_to_previous(), lines 561-594: the status query, the image list,
\* the choice, and the call of update_to_version without a callback
RollbackStart(status_ok, list_ok) ==
    LET status == get_container_status(container, status_ok)
        listed == get_local_images(images, list_ok)
        calls  == <<Called("containers.get", container_name,
                           IF ~status_ok THEN "error"
                           ELSE IF container.exists THEN "ok" ELSE "not_found")>>
                  \o (IF status.ok
                      THEN <<Called("images.list", image_name,
                                    IF list_ok THEN "ok" ELSE "error")>>
                      ELSE <<>>)
        choice == IF ~status.ok THEN status
                  ELSE IF ~listed.ok THEN listed
                  ELSE RollbackChoice(listed.value, status.value.current_version)
        l      == IF choice.ok
                  THEN StartUpdate("rollback", choice.value, NoCallback, calls)
                  ELSE [Idle EXCEPT !.pc = "done", !.caller = "rollback", !.calls = calls,
                                    !.result = Wrapped("Failed to rollback", choice.error)]
    IN  [l EXCEPT !.op = "rollback", !.before = container,
                  !.listed = IF status.ok /\ listed.ok THEN listed.value ELSE <<>>,
                  !.current = IF status.ok THEN status.value.current_version
                              ELSE None,
                  !.read_ok = status.ok /\ listed.ok]

\* rollback_to_previous()
RollbackBegin(p, status_ok, list_ok) ==
    /\ Free(p)
    /\ u' = [u EXCEPT ![p] = RollbackStart(status_ok, list_ok)]
    /\ opsDone' = opsDone + 1
    /\ UNCHANGED <<container, images, networks, nextId, check, catalog, web>>

(***************************************************************************)
(* Backup Producer and the write path of the dashboard: backup_volume,     *)
(* lines 267-308, and api_update, app.py lines 119-142                     *)
(***************************************************************************)

\* line 283: the container the dashboard itself runs in
DashboardName == "n8n-manager-dashboard"

\* lines 278-279: n8n_backup_<%Y%m%d_%H%M%S>.tar.gz
BackupFilename == "n8n_backup_20240601_080000.tar.gz"

\* what the backup meets: the dashboard container is gone, it has no mount at
\* /app/backups, the busybox run fails, or nothing fails
BackupOutcomes == {"ok", "no_dashboard", "no_mount", "run_failed"}

\* backup_volume(): the engine calls it issues and what it returns or raises
backup_volume(l, o) ==
    LET l1 == Call(l, "containers.get", DashboardName,
                   IF o = "no_dashboard" THEN "not_found" ELSE "ok")
        l2 == IF o \in {"no_dashboard", "no_mount"} THEN l1
              ELSE Call(l1, "containers.run", "busybox:latest",
                        IF o = "ok" THEN "ok" ELSE "error")
    IN  [calls  |-> l2.calls,
         result |-> CASE o = "ok" -> Ok(BackupFilename)
                      [] o = "no_dashboard" ->
                           Wrapped("Failed to create backup", "No such container: " \o DashboardName)
                      [] o = "no_mount" ->
                           Wrapped("Failed to create backup",
                                   "Could not find backup directory mount. "
                                   \o "Ensure ./backups is mounted in docker-compose.yml")
                      [] OTHER ->
                           Wrapped("Failed to create backup", "engine error on containers.run")]

\* app.py lines 123-129: the request body read, up to the backup
ApiUpdateStart(target_version) ==
    IF target_version \in {None, ""}
    THEN [Idle EXCEPT !.pc = "done", !.op = "api_update", !.caller = "api_update",
                      !.target = target_version,
                      !.result = Raise("target_version is required")]
    ELSE [Idle EXCEPT !.pc = "backup", !.op = "api_update", !.caller = "api_update",
                      !.target = target_version]

\* ApiBackupDone, going on to the upgrade whatever the backup did
ApiBackupDone_Proceeds(l, o) ==
    LET b == backup_volume(l, o)
    IN  [StartUpdate("api_update", l.target, NoCallback, b.calls)
            EXCEPT !.backup = IF b.result.ok THEN b.result.value ELSE "", !.before = l.before]

\* app.py lines 131-134: backup_filename = manager.backup_volume(), then
\* manager.update_to_version(target_version), up to the container lookup
ApiBackupDone(l, o) ==
    LET b == backup_volume(l, o)
    IN  IF b.result.ok
        THEN [StartUpdate("api_update", l.target, NoCallback, b.calls)
                 EXCEPT !.backup = b.result.value, !.before = l.before]
        ELSE [l EXCEPT !.pc = "done", !.calls = b.calls, !.result = b.result]

\* POST /api/update with {"target_version": target_version}
ApiUpdateBegin(p, target_version) ==
    /\ Free(p)
    /\ u' = [u EXCEPT ![p] = [ApiUpdateStart(target_version) EXCEPT !.before = container]]
    /\ opsDone' = opsDone + 1
    /\ UNCHANGED <<container, images, networks, nextId, check, catalog, web>>

\* manager.backup_volume() of the request, then the start of the upgrade
ApiBackup(p, o) ==
    /\ u[p].pc = "backup"
    /\ u' = [u EXCEPT ![p] = ApiBackupDone(u[p], o)]
    /\ UNCHANGED <<container, images, networks, nextId, opsDone, check, catalog, web>>

(***************************************************************************)
(* get_available_versions(limit), lines 37-126: one action per request     *)
(***************************************************************************)

NoCatalog ==
    [pc |-> "idle", limit |-> 0, latest |-> NoLatest, versions |-> <<>>, fetched |-> 0,
     result |-> Ok(<<>>)]

\* lines 114-126 once the loop has ended
CatalogReturn(c) ==
    [c EXCEPT !.pc = "done",
              !.result = Ok(FinishVersions(c.versions, c.latest, c.limit))]

\* lines 38-67: the release lookup, then the loop test
CatalogBegin(limit, gh) ==
    /\ catalog.pc \in {"idle", "done"}
    /\ LET c == [NoCatalog EXCEPT !.limit = limit, !.latest = LatestProductionVersion(gh)]
       IN  catalog' = IF Len(c.versions) < limit THEN [c EXCEPT !.pc = "fetch"]
                      ELSE CatalogReturn(c)
    /\ UNCHANGED <<container, images, networks, nextId, u, opsDone, check, web>>

\* lines 68-112: one page request; results and has_next are the response,
\* fails a request that raises
CatalogFetch(results, has_next, fails) ==
    /\ catalog.pc = "fetch"
    /\ has_next => catalog.fetched + 1 < MaxPages
    /\ LET c    == [catalog EXCEPT !.fetched = @ + 1]
           more == ScanPage(results, catalog.versions, catalog.limit)
       IN  catalog' =
             IF fails
             THEN [c EXCEPT !.pc = "done",
                            !.result = Wrapped("Failed to fetch versions",
                                               "registry request failed")]
             ELSE IF has_next /\ Len(more) < c.limit
             THEN [c EXCEPT !.versions = more]
             ELSE CatalogReturn([c EXCEPT !.versions = more])
    /\ UNCHANGED <<container, images, networks, nextId, u, opsDone, check, web>>

Tag(name) == [name |-> name, last_updated |-> "2024-01-01T00:00:00Z"]

\* the pages a registry may answer with
PageResults ==
    UNION {[1..n -> {Tag(t) : t \in RegistryTags}] : n \in 0..MaxPageLen}

(***************************************************************************)
(* /api/check-upgrade: app.py lines 102-116                                *)
(***************************************************************************)

Response(code, body) == [code |-> code, body |-> body]

\* api_check_upgrade, after login_required let the request through
api_check_upgrade(c, engine_ok, target_version) ==
    IF target_version \in {None, ""} THEN Response(400, "target_version is required")
    ELSE LET checks == pre_upgrade_checks(get_container_status(c, engine_ok), target_version)
         IN  IF checks.ok THEN Response(200, checks.value) ELSE Response(500, checks.error)

NoCheck == [asked |-> FALSE, target |-> "", engine_ok |-> TRUE, response |-> Response(0, "")]

CheckUpgrade(target_version, engine_ok) ==
    /\ check' = [asked |-> TRUE, target |-> target_version, engine_ok |-> engine_ok,
                 response |-> api_check_upgrade(container, engine_ok, target_version)]
    /\ UNCHANGED <<container, images, networks, nextId, u, opsDone, catalog, web>>

(***************************************************************************)
(* The Flask app: sessions, login_required, login, logout and the routes   *)
(* that call the manager (app.py)                                          *)
(***************************************************************************)

\* browser sessions (signed cookies), each with its own "authenticated" key
Sessions == {1, 2}

\* app.py line 38: the value DASHBOARD_PASSWORD has in the example .env
Placeholder == "your-secure-password"

\* values of the DASHBOARD_PASSWORD environment variable; "" when it is unset
ConfiguredPasswords == {"", Placeholder, "s3cret"}

\* values of the password form field
SubmittedPasswords == {"", "s3cret", "s3cret ", Placeholder, "guess"}

\* Python: s.strip(), for the blanks of the passwords above
RECURSIVE Strip(_)
Strip(s) ==
    IF Len(s) > 0 /\ Ch(s, 1) = " " THEN Strip(SubSeq(s, 2, Len(s)))
    ELSE IF Len(s) > 0 /\ Ch(s, Len(s)) = " " THEN Strip(SubSeq(s, 1, Len(s) - 1))
    ELSE s

\* redirect(url_for(endpoint))
Redirect(endpoint) == [code |-> 302, body |-> endpoint]

\* render_template(template) with the message flashed, "" for none
Render(template, flashed) == [code |-> 200, body |-> [template |-> template, flashed |-> flashed]]

\* login_required, letting every session through
login_required_Open(authenticated) == TRUE

\* app.py lines 20-27: whether the decorated view is called
login_required(authenticated) == authenticated

\* app.py lines 30-48: the session's authenticated key and the response
login(method, password_field, env_password, authenticated) ==
    IF method = "POST"
    THEN LET password          == Strip(password_field)
             expected_password == Strip(env_password)
         IN  IF expected_password = "" \/ expected_password = Placeholder
             THEN [authenticated |-> authenticated,
                   response |-> Render("login.html", "Password not configured")]
             ELSE IF password = expected_password
             THEN [authenticated |-> TRUE, response |-> Redirect("dashboard")]
             ELSE [authenticated |-> authenticated,
                   response |-> Render("login.html", "Invalid password")]
    ELSE [authenticated |-> authenticated, response |-> Render("login.html", "")]

\* the response to a manager call's result: jsonify(value), or the error with 500
Json(result) ==
    IF result.ok THEN [code |-> 200, body |-> result.value]
    ELSE [code |-> 500, body |-> [error |-> result.error]]

\* docker_manager.py lines 654-682: start_container, stop_container,
\* restart_container: the result and the container afterwards
Control(action, c, engine_ok) ==
    IF ~engine_ok
    THEN [result |-> Wrapped("Failed to " \o action \o " container", "engine unreachable"),
          container |-> c]
    ELSE IF ~c.exists THEN [result |-> Raise("Container not found"), container |-> c]
    ELSE [result |-> Ok([success |-> TRUE]),
          container |-> [c EXCEPT !.status = IF action = "stop" THEN "exited" ELSE "running"]]

ControlActions == {"start", "stop", "restart"}

\* app.py line 96: get_available_versions(limit=20)
VersionsLimit == 20

\* one-page registry answers to a versions request
WebPages == {<<>>, <<Tag("latest"), Tag("1.9.0"), Tag("1.10.0")>>}

\* get_available_versions(limit=20) over a registry of one page, no release metadata
Versions(results, fails) ==
    IF fails THEN Wrapped("Failed to fetch versions", "registry request failed")
    ELSE Ok(FinishVersions(ScanPage(results, <<>>, VersionsLimit), NoLatest, VersionsLimit))

NoRequest ==
    [session |-> 0, route |-> "", method |-> "", authenticated |-> FALSE, found |-> FALSE]

NoWeb ==
    [expected |-> "", authenticated |-> [s \in Sessions |-> FALSE], request |-> NoRequest,
     engine_ok |-> TRUE, response |-> Response(0, ""), invoked |-> <<>>]

\* the request as the app sees it: who sent it, whether the session was
\* authenticated when it arrived, and whether the engine then held a container
\* under the managed name
Request(s, route, method) ==
    [session |-> s, route |-> route, method |-> method,
     authenticated |-> web.authenticated[s], found |-> container.exists]

\* a request answered without a change of the session or of the engine;
\* engine_ok is whether the engine answered the calls made for it
Answer(s, route, method, engine_ok, response, invoked) ==
    /\ web' = [web EXCEPT !.request = Request(s, route, method), !.engine_ok = engine_ok,
                          !.response = response, !.invoked = invoked]
    /\ UNCHANGED <<container, images, networks, nextId, u, opsDone, check, catalog>>

\* what login_required answers when it does not call the view
Refused(s, route, method) == Answer(s, route, method, TRUE, Redirect("login"), <<>>)

\* /login, GET or POST
WebLogin(s, method, password_field) ==
    LET r == login(method, password_field, web.expected, web.authenticated[s])
    IN  /\ web' = [web EXCEPT !.authenticated[s] = r.authenticated,
                              !.request = Request(s, "/login", method)
                                          @@ [password |-> password_field],
                              !.engine_ok = TRUE,
                              !.response = r.response, !.invoked = <<>>]
        /\ UNCHANGED <<container, images, networks, nextId, u, opsDone, check, catalog>>

\* /logout: session.clear()
WebLogout(s) ==
    /\ web' = [web EXCEPT !.authenticated[s] = FALSE,
                          !.request = Request(s, "/logout", "GET"),
                          !.engine_ok = TRUE,
                          !.response = Redirect("login"), !.invoked = <<>>]
    /\ UNCHANGED <<container, images, networks, nextId, u, opsDone, check, catalog>>

\* /api/status
WebStatus(s, engine_ok) ==
    IF login_required(web.authenticated[s])
    THEN Answer(s, "/api/status", "GET", engine_ok, Json(get_container_status(container, engine_ok)),
                <<"get_container_status">>)
    ELSE Refused(s, "/api/status", "GET")

\* /api/versions
WebVersions(s, results, fails) ==
    IF login_required(web.authenticated[s])
    THEN Answer(s, "/api/versions", "GET", TRUE, Json(Versions(results, fails)),
                <<"get_available_versions">>)
    ELSE Refused(s, "/api/versions", "GET")

\* /: the dashboard page; the first call that raises ends the try block
WebDashboard(s, engine_ok, results, fails) ==
    IF login_required(web.authenticated[s])
    THEN LET status       == get_container_status(container, engine_ok)
             versions     == Versions(results, fails)
             local_images == get_local_images(images, engine_ok)
             loaded       == status.ok /\ versions.ok /\ local_images.ok
         IN  Answer(s, "/", "GET", engine_ok,
                    Render("dashboard.html",
                           IF loaded THEN "" ELSE "Error loading dashboard"),
                    <<"get_container_status">>
                    \o (IF status.ok THEN <<"get_available_versions">> ELSE <<>>)
                    \o (IF status.ok /\ versions.ok THEN <<"get_local_images">> ELSE <<>>))
    ELSE Refused(s, "/", "GET")

\* /api/check-upgrade
WebCheckUpgrade(s, target_version, engine_ok) ==
    IF login_required(web.authenticated[s])
    THEN Answer(s, "/api/check-upgrade", "POST", engine_ok,
                api_check_upgrade(container, engine_ok, target_version),
                IF target_version \in {None, ""} THEN <<>> ELSE <<"pre_upgrade_checks">>)
    ELSE Refused(s, "/api/check-upgrade", "POST")

\* /api/control/<action>
WebControl(s, action, engine_ok) ==
    IF login_required(web.authenticated[s])
    THEN IF action \notin ControlActions
         THEN Answer(s, "/api/control", "POST", TRUE, Response(400, "Invalid action"), <<>>)
         ELSE LET r == Control(action, container, engine_ok)
              IN  /\ web' = [web EXCEPT !.request = Request(s, "/api/control", "POST"),
                                        !.engine_ok = engine_ok,
                                        !.response = Json(r.result),
                                        !.invoked = <<action \o "_container">>]
                  /\ container' = r.container
                  /\ UNCHANGED <<images, networks, nextId, u, opsDone, check, catalog>>
    ELSE Refused(s, "/api/control", "POST")

\* app.py lines 129, 136-142: the response of /api/update once the view returns
ApiUpdateResponse(l) ==
    IF l.target \in {None, ""} THEN Response(400, [error |-> "target_version is required"])
    ELSE IF l.result.ok
    THEN Response(200, [success |-> TRUE, backup_filename |-> l.backup,
                        container_id |-> l.result.value])
    ELSE Response(500, [error |-> l.result.error])

\* app.py lines 149-156: the response of /api/rollback once the view returns
ApiRollbackResponse(l) ==
    IF l.result.ok THEN Response(200, [success |-> TRUE, container_id |-> l.result.value])
    ELSE Response(500, [error |-> l.result.error])

\* a request that starts an operation of the manager's write path as l
Started(s, route, p, l, invoked) ==
    /\ Free(p)
    /\ u' = [u EXCEPT ![p] = [l EXCEPT !.before = container]]
    /\ opsDone' = opsDone + 1
    /\ web' = [web EXCEPT !.request = Request(s, route, "POST"), !.engine_ok = TRUE,
                          !.invoked = invoked]
    /\ UNCHANGED <<container, images, networks, nextId, check, catalog>>

\* /api/update, up to the backup
WebUpdate(s, p, target_version) ==
    IF login_required(web.authenticated[s])
    THEN Started(s, "/api/update", p, ApiUpdateStart(target_version),
                 IF target_version \in {None, ""} THEN <<>> ELSE <<"backup_volume">>)
    ELSE Refused(s, "/api/update", "POST")

\* /api/rollback, up to the first engine call of the upgrade
WebRollback(s, p, status_ok, list_ok) ==
    IF login_required(web.authenticated[s])
    THEN Started(s, "/api/rollback", p, RollbackStart(status_ok, list_ok),
                 <<"rollback_to_previous">>)
    ELSE Refused(s, "/api/rollback", "POST")

\* app.py lines 136-142 and 150-156: the view returns what the manager
\* returned or raised
WebReturn(p) ==
    /\ u[p].pc = "done"
    /\ web' = [web EXCEPT !.response = IF u[p].caller = "rollback"
                                       THEN ApiRollbackResponse(u[p])
                                       ELSE ApiUpdateResponse(u[p]),
                          !.invoked = IF u[p].caller = "api_update" /\ u[p].backup # ""
                                      THEN Append(@, "update_to_version") ELSE @]
    /\ u' = [u EXCEPT ![p] = Idle]
    /\ UNCHANGED <<container, images, networks, nextId, opsDone, check, catalog>>

(***************************************************************************)
(* Initial states                                                          *)
(***************************************************************************)

Binding(host_port) == [HostIp |-> "", HostPort |-> host_port]

Mount(type, name, destination, mode) ==
    [Type |-> type, Name |-> name, Destination |-> destination, Mode |-> mode]

\* runtime configurations a managed container can have been started with
ContainerConfigs ==
    { \* the documented deployment: port 5678, the n8n_data volume, a compose network
      [Env |-> <<"N8N_HOST=n8n.example.com", "TZ=UTC">>,
       PortBindings |-> <<[k |-> "5678/tcp", v |-> <<Binding("5678")>>]>>,
       Mounts |-> <<Mount("volume", "n8n_data", "/home/node/.n8n", "rw")>>,
       Binds |-> <<>>, Networks |-> <<"n8n_web">>],
      \* another host port, a read-only volume, the default network
      [Env |-> <<"WEBHOOK_URL=https://n8n.example.com/?a=b">>,
       PortBindings |-> <<[k |-> "5678/tcp", v |-> <<Binding("8080")>>]>>,
       Mounts |-> <<Mount("volume", "n8n_data", "/home/node/.n8n", "ro")>>,
       Binds |-> <<>>, Networks |-> <<DefaultNetwork>>],
      \* nothing published, the volume given as a bind string, two networks
      [Env |-> <<>>,
       PortBindings |-> <<>>,
       Mounts |-> <<>>,
       Binds |-> <<[Name |-> "n8n_data", Destination |-> "/home/node/.n8n", Mode |-> "rw"]>>,
       Networks |-> <<DefaultNetwork, "n8n_web">>],
      \* a host port left to the engine, a second volume, a host directory
      [Env |-> <<"TZ=UTC">>,
       PortBindings |-> <<[k |-> "5678/tcp", v |-> <<Binding("")>>]>>,
       Mounts |-> <<Mount("volume", "n8n_data", "/home/node/.n8n", "rw"),
                    Mount("bind", "", "/files", "rw")>>,
       Binds |-> <<>>, Networks |-> <<"n8n_web">>],
      \* a port exposed without a binding, a volume under another name, no network
      [Env |-> <<"TZ=UTC">>,
       PortBindings |-> <<[k |-> "5678/tcp", v |-> <<>>]>>,
       Mounts |-> <<Mount("volume", "workflows", "/data", "rw")>>,
       Binds |-> <<>>, Networks |-> <<>>] }

\* the documented deployment
ComposeConfig ==
    CHOOSE cfg \in ContainerConfigs :
        cfg.Networks = <<"n8n_web">> /\ Len(cfg.Mounts) = 1 /\ Len(cfg.Env) = 2

\* local images
Img100 == Image(<<"n8nio/n8n:1.0.0">>, NoLabels, RegistryCreated("1.0.0"))

Img110 == Image(<<"n8nio/n8n:1.1.0">>, NoLabels, RegistryCreated("1.1.0"))

Img120 == Image(<<"n8nio/n8n:1.2.0">>, NoLabels, RegistryCreated("1.2.0"))

\* the floating tag, its version known from a label only
ImgLatest ==
    Image(<<"n8nio/n8n:latest">>, [NoLabels EXCEPT !.oci = "1.2.0"], "2024-03-11")

\* image stores, in the order the engine lists them
ImageStores ==
    {<<>>, <<Img110>>, <<Img110, Img100>>, <<Img100, Img120, Img110>>,
     <<Img120, Img110, Img100>>, <<ImgLatest, Img120, Img110>>, <<ImgLatest, Img120>>}

NetworkLists == {<<DefaultNetwork, "n8n_web">>, <<DefaultNetwork, "proxy", "traefik_web", "n8n_web">>}

\* the engine before the first request: a varied container over one image
\* store, or the documented container over varied image stores
InitEngine ==
    /\ networks \in NetworkLists
    /\ nextId = 2
    /\ \/ /\ images = <<Img110, Img100>>
          /\ container \in {NoContainer}
                \cup {Container(1, Img110, cfg) : cfg \in ContainerConfigs}
       \/ /\ images \in ImageStores
          /\ networks = <<DefaultNetwork, "n8n_web">>
          /\ container \in {NoContainer}
                \cup {Container(1, images[i], ComposeConfig) : i \in 1..Len(images)}

Init ==
    /\ InitEngine
    /\ u = [p \in Procs |-> Idle]
    /\ opsDone = 0
    /\ check = NoCheck
    /\ catalog = NoCatalog
    /\ web = NoWeb

\* versions asked for: served by the registry, or not
Targets == {"1.2.0", "1.0.0", "9.9.9"}

Outcomes == {"ok", "error"}

Next ==
    \E p \in Procs :
        \/ \E t \in Targets, cb \in Callbacks : UpdateBegin(p, t, cb)
        \/ \E o \in Outcomes : UpdateCapture(p, o)
        \/ \E o \in Outcomes \cup {"not_found"} : UpdateStop(p, o)
        \/ \E o \in Outcomes \cup {"not_found"} : UpdateRemove(p, o)
        \/ \E o \in Outcomes : UpdatePull(p, o)
        \/ \E o \in Outcomes : UpdateCreate(p, o)
        \/ \E o \in Outcomes : UpdateGetNew(p, o)
        \/ \E o \in Outcomes : UpdateNetGet(p, o)
        \/ \E o \in Outcomes : UpdateNetConnect(p, o)
        \/ \E o \in Outcomes : UpdateNetList(p, o)
        \/ \E o \in Outcomes : UpdateNetTry(p, o)
        \/ \E o \in Outcomes : UpdateStart(p, o)
        \/ \E status_ok \in BOOLEAN, list_ok \in BOOLEAN : RollbackBegin(p, status_ok, list_ok)
        \/ \E t \in Targets \cup {""} : ApiUpdateBegin(p, t)
        \/ \E o \in BackupOutcomes : ApiBackup(p, o)

\* the manager's write path: upgrades and rollbacks, one request at a time
Spec == Init /\ [][Next]_vars

\* versions a container may run and a request may name
CheckVersions ==
    {"1.0.0", "1.0.1", "1.10.0", "1.11.0", "1.15.0", "2.0.0", "1.0.0-rc1",
     "2.0.0-consider", "latest", "1.5", ""}

InitCheck ==
    /\ networks = <<DefaultNetwork, "n8n_web">>
    /\ nextId = 2
    /\ \/ /\ images = <<>>
          /\ container = NoContainer
       \/ \E v \in CheckVersions \ {"", "2.0.0-consider"} :
             /\ images = <<Image(<<ImageTag(v)>>, NoLabels, "2024-01-10")>>
             /\ container = Container(1, images[1], ComposeConfig)
       \/ /\ images \in {<<ImgLatest>>, <<Image(<<"registry:5000/n8nio/n8n:1.0.0">>, NoLabels, "2024-01-10")>>}
          /\ container = Container(1, images[1], ComposeConfig)
    /\ u = [p \in Procs |-> Idle]
    /\ opsDone = 0
    /\ check = NoCheck
    /\ catalog = NoCatalog
    /\ web = NoWeb

NextCheck == \E t \in CheckVersions, engine_ok \in BOOLEAN : CheckUpgrade(t, engine_ok)

\* the pre-upgrade check, asked of any container about any target
SpecCheck == InitCheck /\ [][NextCheck]_vars

InitCatalog ==
    /\ networks = <<DefaultNetwork, "n8n_web">>
    /\ nextId = 2
    /\ images = <<>>
    /\ container = NoContainer
    /\ u = [p \in Procs |-> Idle]
    /\ opsDone = 0
    /\ check = NoCheck
    /\ catalog = NoCatalog
    /\ web = NoWeb

NextCatalog ==
    \/ \E limit \in 0..MaxLimit, gh \in GithubResponses : CatalogBegin(limit, gh)
    \/ \E results \in PageResults, has_next \in BOOLEAN, fails \in BOOLEAN :
          CatalogFetch(results, has_next, fails)

\* the version catalog, fetched from any registry pages
SpecCatalog == InitCatalog /\ [][NextCatalog]_vars

InitWeb ==
    /\ networks = <<DefaultNetwork, "n8n_web">>
    /\ nextId = 2
    /\ images = <<Img110, Img100>>
    /\ container \in {NoContainer, Container(1, Img110, ComposeConfig)}
    /\ u = [p \in Procs |-> Idle]
    /\ opsDone = 0
    /\ check = NoCheck
    /\ catalog = NoCatalog
    /\ \E env_password \in ConfiguredPasswords : web = [NoWeb EXCEPT !.expected = env_password]

\* no request of the write path is being served
Quiet == \A p \in Procs : u[p].pc = "idle"

\* a request arrives while none is being served
WebRequest ==
    /\ Quiet
    /\ \E s \in Sessions :
          \/ \E password \in SubmittedPasswords : WebLogin(s, "POST", password)
          \/ WebLogin(s, "GET", "")
          \/ WebLogout(s)
          \/ \E engine_ok \in BOOLEAN : WebStatus(s, engine_ok)
          \/ \E results \in WebPages, fails \in BOOLEAN : WebVersions(s, results, fails)
          \/ \E engine_ok \in BOOLEAN, fails \in BOOLEAN :
                WebDashboard(s, engine_ok, <<Tag("latest"), Tag("1.9.0")>>, fails)
          \/ \E t \in {"", "1.2.0"}, engine_ok \in BOOLEAN :
                WebCheckUpgrade(s, t, engine_ok)
          \/ \E action \in ControlActions \cup {"pause"}, engine_ok \in BOOLEAN :
                WebControl(s, action, engine_ok)
          \/ \E p \in Procs, t \in {"", "1.2.0"} : WebUpdate(s, p, t)
          \/ \E p \in Procs : WebRollback(s, p, TRUE, TRUE)

\* the next engine call of the write operation being served
WebWriteStep ==
    \E p \in Procs :
        \/ ApiBackup(p, "ok")
        \/ UpdateCapture(p, "ok")
        \/ UpdateStop(p, "ok")
        \/ UpdateRemove(p, "ok")
        \/ UpdatePull(p, "ok")
        \/ UpdateCreate(p, "ok")
        \/ UpdateGetNew(p, "ok")
        \/ UpdateNetGet(p, "ok")
        \/ UpdateNetConnect(p, "ok")
        \/ UpdateStart(p, "ok")
        \/ WebReturn(p)

NextWeb == WebRequest \/ WebWriteStep

\* the dashboard's requests, from any session in any order and served one at a
\* time, with the engine carrying out every call of a write operation
SpecWeb == InitWeb /\ [][NextWeb]_vars

\* two invocations of update_to_version at once
Racers == {1, 2}

\* the engine's answer to stop: the container object is still held, or gone
StopAnswer(p) == IF Held(p) THEN "ok" ELSE "not_found"

\* the engine's answer to remove: it refuses to remove a running container
RemoveAnswer(p) ==
    IF ~Held(p) THEN "not_found"
    ELSE IF container.status = "running" THEN "error"
    ELSE "ok"

\* the engine's answer to create: it refuses a name in use
CreateAnswer == IF container.exists THEN "error" ELSE "ok"

\* the engine's answer to a call on the container the invocation created
NewAnswer(p) == IF HeldNew(p) THEN "ok" ELSE "error"

\* update_to_version(target_version, callback), called while another call may
\* be running
RaceBegin(p, target_version, callback) ==
    /\ u[p].pc = "idle"
    /\ u' = [u EXCEPT ![p] = [StartUpdate("api", target_version, callback, <<>>)
                                 EXCEPT !.before = container]]
    /\ UNCHANGED <<container, images, networks, nextId, opsDone, check, catalog, web>>

\* no callback, or one that raises at its fourth milestone
RaceCallbacks == {NoCallback, [kind |-> "raises", at |-> 4]}

\* a container on one network, or none
InitRace ==
    /\ networks = <<DefaultNetwork, "n8n_web">>
    /\ nextId = 2
    /\ images = <<Img110, Img100>>
    /\ container \in {NoContainer}
          \cup {Container(1, Img110, cfg) :
                  cfg \in {c \in ContainerConfigs : Len(c.Networks) = 1}}
    /\ u = [p \in Racers |-> Idle]
    /\ opsDone = 0
    /\ check = NoCheck
    /\ catalog = NoCatalog
    /\ web = NoWeb

\* the next engine call of either invocation, answered by the engine as the
\* state left by both invocations has it
NextRace ==
    \E p \in Racers :
        \/ \E t \in {"1.2.0", "1.0.0"}, cb \in RaceCallbacks : RaceBegin(p, t, cb)
        \/ UpdateCapture(p, "ok")
        \/ UpdateStop(p, StopAnswer(p))
        \/ UpdateRemove(p, RemoveAnswer(p))
        \/ UpdatePull(p, "ok")
        \/ UpdateCreate(p, CreateAnswer)
        \/ UpdateGetNew(p, NewAnswer(p))
        \/ UpdateNetGet(p, "ok")
        \/ UpdateNetConnect(p, IF CanConnect(p, u[p].cfg.network_config) THEN "ok" ELSE "error")
        \/ UpdateNetList(p, "ok")
        \/ UpdateNetTry(p, IF u[p].pc = "net_try" /\ CanConnect(p, Head(u[p].candidates))
                           THEN "ok" ELSE "error")
        \/ UpdateStart(p, NewAnswer(p))

\* two concurrent upgrades of one managed name
SpecRace == InitRace /\ [][NextRace]_vars

(***************************************************************************)
(* Properties                                                              *)
(***************************************************************************)

\* the engine calls of an invocation that change the engine's state
StepOps == {"stop", "remove", "pull", "create", "network.connect", "start"}

Steps(l) == SelectSeq(l.calls, LAMBDA c : c.op \in StepOps)

StepNames(l) == [i \in 1..Len(Steps(l)) |-> <<Steps(l)[i].op, Steps(l)[i].arg>>]

Issued(l, op) == \E i \in 1..Len(l.calls) : l.calls[i].op = op

NoCallFailed(l) == \A i \in 1..Len(l.calls) : l.calls[i].ok

\* an invocation that has ended and found a container at its lookup
UpgradedExisting(l) == l.pc = "done" /\ l.op \in {"update", "rollback"} /\ l.old.exists

\* C1: an upgrade of an existing container in which no engine call fails issues
\* stop (60 s), remove, pull, create, network attach (if a network was
\* captured), start, once each and in this order, and returns the id of the
\* new container, which is started and runs the target image tag
C1_UpgradeSequence ==
    \A p \in Procs :
        (UpgradedExisting(u[p]) /\ NoCallFailed(u[p])) =>
            /\ StepNames(u[p]) =
                  <<<<"stop", "60">>, <<"remove", "">>, <<"pull", ImageTag(u[p].target)>>,
                    <<"create", container_name>>>>
                  \o (IF Len(u[p].old.Networks) > 0
                      THEN <<<<"network.connect", u[p].old.Networks[1]>>>> ELSE <<>>)
                  \o <<<<"start", "">>>>
            /\ u[p].result = Ok(u[p].new_id)
            /\ container.exists
            /\ container.id = u[p].new_id
            /\ container.id # u[p].old.id
            /\ container.name = container_name
            /\ container.status = "running"
            /\ InSeq(ImageTag(u[p].target), container.image.tags)

\* the same for the upgrades whose progress callback, if any, returns and whose
\* captured host ports are numbers: what the code does in the nominal run
C1_NominalSequence ==
    \A p \in Procs :
        (UpgradedExisting(u[p]) /\ NoCallFailed(u[p]) /\ u[p].cb.kind # "raises"
            /\ ~PortsRaise(u[p].old.PortBindings)) =>
            /\ StepNames(u[p]) =
                  <<<<"stop", "60">>, <<"remove", "">>, <<"pull", ImageTag(u[p].target)>>,
                    <<"create", container_name>>>>
                  \o (IF Len(u[p].old.Networks) > 0
                      THEN <<<<"network.connect", u[p].old.Networks[1]>>>> ELSE <<>>)
                  \o <<<<"start", "">>>>
            /\ u[p].result = Ok(u[p].new_id)
            /\ HeldNew(p)
            /\ container.status = "running"
            /\ InSeq(ImageTag(u[p].target), container.image.tags)

\* a nominal upgrade that attached a captured network has ended
C1_Witness ==
    \E p \in Procs :
        /\ UpgradedExisting(u[p]) /\ NoCallFailed(u[p]) /\ u[p].result.ok
        /\ Issued(u[p], "network.connect")
        /\ u[p].cb.kind = "returns"

\* the runtime configuration of a container, as the engine reports it
PortsOf(c) ==
    UNION {{[container_port |-> c.PortBindings[i].k,
             host_port |-> c.PortBindings[i].v[j].HostPort] :
               j \in 1..Len(c.PortBindings[i].v)} : i \in 1..Len(c.PortBindings)}

VolumesOf(c) ==
    {[name |-> c.Mounts[i].Name, path |-> c.Mounts[i].Destination, mode |-> c.Mounts[i].Mode] :
        i \in {k \in 1..Len(c.Mounts) : c.Mounts[k].Type = "volume"}}
    \cup {[name |-> c.Binds[i].Name, path |-> c.Binds[i].Destination, mode |-> c.Binds[i].Mode] :
        i \in 1..Len(c.Binds)}

EnvOf(c) == {c.Env[i] : i \in 1..Len(c.Env)}

\* an upgrade of an existing container has returned the new container's id
Upgraded(p) == UpgradedExisting(u[p]) /\ u[p].result.ok /\ HeldNew(p)

\* C2: the container a successful upgrade creates has the port bindings, the
\* volume mounts (name, path, mode), the environment and the attached network
\* read from the old container; nothing is added, dropped or altered
C2_ConfigPreserved ==
    \A p \in Procs :
        Upgraded(p) =>
            /\ PortsOf(container) = PortsOf(u[p].old)
            /\ VolumesOf(container) = VolumesOf(u[p].old)
            /\ EnvOf(container) = EnvOf(u[p].old)
            /\ Len(u[p].old.Networks) > 0 => InSeq(u[p].old.Networks[1], container.Networks)

\* the pull of the invocation's target image failed
PullFailed(l) ==
    /\ l.pc = "done"
    /\ Len(l.calls) > 0
    /\ l.calls[Len(l.calls)].op = "pull"
    /\ ~l.calls[Len(l.calls)].ok

\* C3: when the pull fails the operation fails with the pull's failure, create
\* and start are never issued, and no container has the managed name afterwards
C3_PullFailure ==
    \A p \in Procs :
        PullFailed(u[p]) =>
            /\ ~u[p].result.ok
            /\ Contains("Failed to update container: pull of " \o ImageTag(u[p].target)
                        \o " failed", u[p].result.error)
            /\ ~Issued(u[p], "create")
            /\ ~Issued(u[p], "start")
            /\ ~container.exists

\* the pull failed after the old container had been stopped and removed
C3_Witness ==
    \E p \in Procs :
        /\ PullFailed(u[p])
        /\ u[p].old.exists
        /\ Issued(u[p], "remove")
        /\ u[p].before.exists

\* C4: emitting progress never fails the upgrade: no invocation ends in the
\* failure of its progress callback, whatever engine calls it has issued
C4_ProgressNeverFails ==
    \A p \in Procs :
        u[p].pc = "done" => ~Contains("progress callback failed", u[p].exc)

\* the position of the running version in the inventory, 0 when it has none
CurrentPos(l) ==
    IF \E i \in 1..Len(l.listed) : l.listed[i].version = l.current
    THEN CHOOSE i \in 1..Len(l.listed) :
            /\ l.listed[i].version = l.current
            /\ \A j \in 1..(i - 1) : l.listed[j].version # l.current
    ELSE 0

\* the images after the current one whose version differs from the current one
LaterDistinct(l) ==
    {i \in 1..Len(l.listed) : i > CurrentPos(l) /\ l.listed[i].version # l.current}

\* a rollback that read the status and the inventory
RolledBack(l) == l.op = "rollback" /\ l.read_ok

\* C5: with at least 2 local images, rollback hands the orchestrator the version
\* of the first image after the current one (newest first) whose version
\* differs from the running one, never an image before the current one, and
\* fails with NoDistinctVersionError when there is none
C5_RollbackSelection ==
    \A p \in Procs :
        (RolledBack(u[p]) /\ Len(u[p].listed) >= 2 /\ CurrentPos(u[p]) > 0) =>
            IF LaterDistinct(u[p]) = {}
            THEN /\ ~u[p].result.ok
                 /\ Contains("Cannot rollback to the same version", u[p].result.error)
            ELSE /\ u[p].target =
                       u[p].listed[CHOOSE i \in LaterDistinct(u[p]) :
                                      \A j \in LaterDistinct(u[p]) : i <= j].version

\* C6: with fewer than 2 local images, rollback fails with
\* InsufficientHistoryError, issues no stop, remove, pull, create or start, and
\* leaves the managed container exactly as it was
C6_InsufficientHistory ==
    \A p \in Procs :
        (RolledBack(u[p]) /\ Len(u[p].listed) < 2) =>
            /\ u[p].pc = "done"
            /\ u[p].result = Raise("Failed to rollback: No previous version found locally")
            /\ Steps(u[p]) = <<>>
            /\ container = u[p].before

\* a rollback over exactly one local image, the running container's, has failed
C6_Witness ==
    \E p \in Procs :
        /\ RolledBack(u[p]) /\ Len(u[p].listed) = 1
        /\ u[p].before.exists
        /\ u[p].pc = "done"

\* the version the checked container runs, as the status inspector reports it
CheckedCurrent ==
    IF container.exists THEN CurrentVersion(container.image) ELSE None

\* a check request that reached the comparison of two parseable versions
Compared ==
    /\ check.asked /\ check.engine_ok
    /\ CheckedCurrent \notin {None, "", "unknown"}
    /\ VersionParse(CheckedCurrent).ok
    /\ VersionParse(check.target).ok

IsMajorJump(w) == StartsWith(w, "Major version jump detected")

IsLargeGap(w) == StartsWith(w, "Large version gap detected")

IsDowngrade(w) == StartsWith(w, "Downgrading from")

Has(warnings, Kind(_)) == \E i \in 1..Len(warnings) : Kind(warnings[i])

\* C7: for parseable current and target versions the report carries a
\* major-jump warning exactly when target.major > current.major, a large-gap
\* warning exactly when the majors are equal and the minor gap exceeds 10, a
\* downgrade warning exactly when target < current, and no other warning
C7_Warnings ==
    Compared =>
        LET current == VersionParse(CheckedCurrent)
            target  == VersionParse(check.target)
            w       == check.response.body.warnings
        IN  /\ check.response.code = 200
            /\ Has(w, IsMajorJump) <=> target.major > current.major
            /\ Has(w, IsLargeGap) <=>
                  (target.major = current.major /\ target.minor - current.minor > 10)
            /\ Has(w, IsDowngrade) <=> VersionCompare(target, current) < 0
            /\ \A i \in 1..Len(w) : IsMajorJump(w[i]) \/ IsLargeGap(w[i]) \/ IsDowngrade(w[i])
            /\ \A i, j \in 1..Len(w) : w[i] = w[j] => i = j
            /\ (CheckedCurrent = "1.0.0" /\ check.target = "1.0.1") => w = <<>>

\* a minor gap of exactly 10 within one major version was checked: no warning
C7_Witness ==
    /\ Compared
    /\ VersionParse(CheckedCurrent).major = VersionParse(check.target).major
    /\ VersionParse(check.target).minor - VersionParse(CheckedCurrent).minor = 10
    /\ check.response.body.warnings = <<>>

\* the advisory warnings: a suggestion (the large gap) or the unknown version
IsAdvisory(w) == IsLargeGap(w) \/ w = UnknownVersionWarning

\* C8: in every report, safe is true iff no warning was emitted or every
\* emitted warning is advisory; a report with a risk warning has safe = false
C8_SafeIffAdvisory ==
    (check.asked /\ check.response.code = 200) =>
        LET report == check.response.body
        IN  report.safe <=> \A i \in 1..Len(report.warnings) : IsAdvisory(report.warnings[i])

\* a check request whose current version is known and where the current or the
\* target version is not a semantic version
Unparseable ==
    /\ check.asked /\ check.engine_ok
    /\ CheckedCurrent \notin {None, "", "unknown"}
    /\ ~VersionParse(CheckedCurrent).ok \/ ~VersionParse(check.target).ok

\* C9: when the current version is known and the current or the target version
\* fails semantic-version parsing, the check reaches the caller as a failure
\* and no report is returned
C9_InvalidVersionFails ==
    Unparseable => check.response.code # 200

\* C9, amended: in that case, for a target that is given, the check returns a
\* report with safe = false whose only warning is "Version check failed: "
\* with the parser's message about the first version that fails to parse, the
\* current one first, and the caller answers 200 with that report
C9_InvalidVersionReport ==
    (Unparseable /\ check.target # "") =>
        check.response =
            Response(200,
                     [safe |-> FALSE,
                      warnings |-> <<"Version check failed: "
                                     \o (IF ~VersionParse(CheckedCurrent).ok
                                         THEN CheckedCurrent ELSE check.target)
                                     \o " is not valid SemVer string">>])

\* the check was asked for a target that is no semantic version while the
\* container runs a parseable one
C9_Witness ==
    /\ Unparseable
    /\ VersionParse(CheckedCurrent).ok
    /\ check.target = "latest"
    /\ check.response.code = 200

\* C10: the returned list has at most limit entries, is strictly descending by
\* parsed semantic version, and holds no latest/next, no architecture suffix,
\* no pre-release marker, no unparseable tag and no pre-release component
C10_CatalogList ==
    (catalog.pc = "done" /\ catalog.result.ok) =>
        LET vs == catalog.result.value
        IN  /\ Len(vs) <= catalog.limit
            /\ \A i, j \in 1..Len(vs) :
                  i < j => VersionCompare(VersionParse(vs[i].version),
                                          VersionParse(vs[j].version)) > 0
            /\ \A i \in 1..Len(vs) :
                  /\ vs[i].version \notin {"latest", "next"}
                  /\ ~Contains("-amd64", vs[i].version)
                  /\ ~Contains("-arm64", vs[i].version)
                  /\ ~\E pre \in {"alpha", "beta", "rc", "exp"} : InLower(pre, vs[i].version)
                  /\ VersionParse(vs[i].version).ok
                  /\ VersionParse(vs[i].version).prerelease = ""

\* a status query that the engine answered while no container had the managed name
StatusOfAbsent ==
    /\ web.request.route = "/api/status"
    /\ web.request.authenticated
    /\ web.engine_ok
    /\ ~web.request.found

\* C11: a status query when no container with the managed name exists does not
\* raise: it returns status = not_found with every other field null
C11_NotFoundStatus ==
    StatusOfAbsent =>
        /\ web.invoked = <<"get_container_status">>
        /\ web.response.code = 200
        /\ web.response.body.status = "not_found"
        /\ \A field \in DOMAIN web.response.body \ {"status"} : web.response.body[field] = None
        /\ DOMAIN web.response.body =
              {"status", "current_version", "started_at", "health", "cpu_percent",
               "memory_usage", "memory_limit", "memory_percent"}

\* the status of an absent container was asked for and answered
C11_Witness == StatusOfAbsent /\ web.response.code = 200

\* C18: for parseable current and target versions the report carries at most one
\* warning, so a risk warning (major jump, downgrade) and an advisory one (large
\* gap) never come together
C18_AtMostOneWarning ==
    Compared =>
        LET w == check.response.body.warnings
        IN  /\ check.response.code = 200
            /\ Len(w) <= 1
            /\ ~(Has(w, IsLargeGap) /\ (Has(w, IsMajorJump) \/ Has(w, IsDowngrade)))
            /\ ~(Has(w, IsMajorJump) /\ Has(w, IsDowngrade))

\* a downgrade across a major version with a larger minor number was checked:
\* the report carries the downgrade warning alone
C18_Witness ==
    /\ Compared
    /\ VersionParse(check.target).major < VersionParse(CheckedCurrent).major
    /\ VersionParse(check.target).minor - VersionParse(CheckedCurrent).minor > LargeGap
    /\ Len(check.response.body.warnings) = 1
    /\ IsDowngrade(check.response.body.warnings[1])

\* the engine calls of the network-attach step (lines 525-539)
AttachOps == {"networks.get", "network.connect", "networks.list"}

\* the position of the successful create among the calls of l, or 0
CreatedAt(l) ==
    IF \E i \in 1..Len(l.calls) : l.calls[i].op = "create" /\ l.calls[i].ok
    THEN CHOOSE i \in 1..Len(l.calls) : l.calls[i].op = "create" /\ l.calls[i].ok
    ELSE 0

\* an invocation that has ended, that created the new container and fetched its
\* object, whose progress callback (if any) returns, and in which nothing but
\* calls of the network-attach step failed after the create
OnlyAttachFailed(l) ==
    /\ l.pc = "done"
    /\ l.cb.kind # "raises"
    /\ CreatedAt(l) > 0
    /\ Len(l.calls) > CreatedAt(l)
    /\ l.calls[CreatedAt(l) + 1].ok
    /\ \A i \in (CreatedAt(l) + 1)..Len(l.calls) :
          ~l.calls[i].ok => l.calls[i].op \in AttachOps

\* C12: once the new container has been created, no failure inside the
\* network-attach step aborts the upgrade: the new container is still started
\* and its id returned
C12_AttachNonFatal ==
    \A p \in Procs :
        OnlyAttachFailed(u[p]) =>
            /\ Issued(u[p], "start")
            /\ u[p].result = Ok(u[p].new_id)
            /\ HeldNew(p) /\ container.status = "running"

\* the same for the failures the handler of lines 529-539 covers: those of
\* networks.get and of the connects
C12_ConnectNonFatal ==
    \A p \in Procs :
        (OnlyAttachFailed(u[p])
            /\ \A i \in 1..Len(u[p].calls) : u[p].calls[i].op = "networks.list" => u[p].calls[i].ok)
        => /\ Issued(u[p], "start")
           /\ u[p].result = Ok(u[p].new_id)

\* C13: a failed stop, remove, pull, create or start aborts the operation at
\* once with a wrapped error: it is the last engine call of the invocation
C13_AbortAtOnce ==
    \A p \in Procs :
        \A i \in 1..Len(u[p].calls) :
            (u[p].calls[i].op \in {"stop", "remove", "pull", "create", "start"}
                /\ ~u[p].calls[i].ok)
            => /\ i = Len(u[p].calls)
               /\ u[p].pc = "done"
               /\ ~u[p].result.ok
               /\ StartsWith(u[p].result.error, "Failed to ")

\* the same for the failures other than NotFound on stop or remove
C13_AbortUnlessNotFound ==
    \A p \in Procs :
        \A i \in 1..Len(u[p].calls) :
            (u[p].calls[i].op \in {"pull", "create", "start"} /\ ~u[p].calls[i].ok)
            => /\ i = Len(u[p].calls)
               /\ u[p].pc = "done"
               /\ ~u[p].result.ok
               /\ StartsWith(u[p].result.error, "Failed to ")

\* C17: when the lookup found the container and its configuration was read, the
\* new container is created from the captured ports and volumes, whatever stop
\* and remove report afterwards
C17_CapturedConfigKept ==
    \A p \in Procs :
        (u[p].old.exists /\ Issued(u[p], "create")) =>
            u[p].args = CreateArgs(Capture(u[p].old), u[p].target, container_name)

\* the same for the invocations whose stop and remove did not report NotFound
C17_CapturedUnlessNotFound ==
    \A p \in Procs :
        (u[p].old.exists /\ Issued(u[p], "create")
            /\ \A i \in 1..Len(u[p].calls) :
                  u[p].calls[i].op \in {"stop", "remove"} => u[p].calls[i].ok)
        => u[p].args = CreateArgs(Capture(u[p].old), u[p].target, container_name)

\* the position of the lookup of line 390 among the calls of an upgrade, or 0
LookupAt(l) ==
    IF \E i \in 1..Len(l.calls) : l.calls[i].op = "containers.get" /\ l.calls[i].arg = container_name
    THEN CHOOSE i \in 1..Len(l.calls) :
            /\ l.calls[i].op = "containers.get" /\ l.calls[i].arg = container_name
            /\ \A j \in 1..(i - 1) :
                  ~(l.calls[j].op = "containers.get" /\ l.calls[j].arg = container_name)
    ELSE 0

\* an upgrade whose lookup was answered with NotFound: no container had the
\* managed name at Capture
AbsentAtCapture(l) ==
    /\ l.op = "update"
    /\ LookupAt(l) > 0
    /\ ~l.calls[LookupAt(l)].ok
    /\ ~(LookupAt(l) = Len(l.calls) /\ l.exc = "engine error on containers.get")

\* such an upgrade has ended and none of its engine calls after the lookup failed
AbsentAndNoCallFailed(l) ==
    /\ AbsentAtCapture(l)
    /\ l.pc = "done"
    /\ \A i \in (LookupAt(l) + 1)..Len(l.calls) : l.calls[i].ok

\* the container is the one the invocation created, started, with the default
\* configuration of lines 450-451
DefaultContainer(p) ==
    /\ HeldNew(p)
    /\ container.name = container_name
    /\ container.status = "running"
    /\ PortsOf(container) = {[container_port |-> "5678/tcp", host_port |-> "5678"]}
    /\ VolumesOf(container) = {[name |-> "n8n_data", path |-> "/home/node/.n8n", mode |-> "rw"]}
    /\ EnvOf(container) = {}
    /\ container.Networks = <<DefaultNetwork>>

\* C14: when no container has the managed name at Capture, an upgrade issues no
\* stop and no remove, and creates and starts a container under the managed
\* name with port 5678 -> 5678, the volume n8n_data at /home/node/.n8n, no
\* environment and no network attachment
C14_AbsentUsesDefaults ==
    \A p \in Procs :
        /\ AbsentAtCapture(u[p]) =>
              /\ ~Issued(u[p], "stop") /\ ~Issued(u[p], "remove")
              /\ \A op \in AttachOps : ~Issued(u[p], op)
              /\ Issued(u[p], "create") =>
                    /\ u[p].args.name = container_name
                    /\ u[p].args.port_bindings = <<[k |-> 5678, v |-> 5678]>>
                    /\ u[p].args.binds =
                          <<[Name |-> "n8n_data", Destination |-> "/home/node/.n8n", Mode |-> "rw"]>>
                    /\ u[p].args.environment = <<>>
        /\ AbsentAndNoCallFailed(u[p]) =>
              /\ StepNames(u[p]) = <<<<"pull", ImageTag(u[p].target)>>,
                                    <<"create", container_name>>, <<"start", "">>>>
              /\ u[p].result = Ok(u[p].new_id)
              /\ DefaultContainer(p)

\* the same for the upgrades whose progress callback, if any, returns
C14_NominalDefaults ==
    \A p \in Procs :
        /\ AbsentAtCapture(u[p]) =>
              /\ ~Issued(u[p], "stop") /\ ~Issued(u[p], "remove")
              /\ \A op \in AttachOps : ~Issued(u[p], op)
              /\ Issued(u[p], "create") =>
                    u[p].args = CreateArgs(UseDefaults(NoCapture), u[p].target, container_name)
        /\ (AbsentAndNoCallFailed(u[p]) /\ u[p].cb.kind # "raises") =>
              /\ StepNames(u[p]) = <<<<"pull", ImageTag(u[p].target)>>,
                                    <<"create", container_name>>, <<"start", "">>>>
              /\ u[p].result = Ok(u[p].new_id)
              /\ DefaultContainer(p)

\* the engine calls of the Upgrade Orchestrator: its lookup and its steps
IsUpgradeCall(c) ==
    \/ c.op \in StepOps \cup AttachOps
    \/ c.op = "containers.get" /\ c.arg \in {container_name, "Id"}

\* the calls of a backup that returned: the dashboard's mounts read, busybox run
BackupCalls ==
    <<Called("containers.get", DashboardName, "ok"),
      Called("containers.run", "busybox:latest", "ok")>>

\* C15: on the write path of the dashboard the upgrade is invoked only after the
\* backup of the same request has returned a filename; when the backup fails,
\* no stop, remove, pull, create or start is issued and the request reports an
\* error
C15_BackupFirst ==
    \A p \in Procs :
        u[p].caller = "api_update" =>
            /\ (u[p].op = "update" \/ \E i \in 1..Len(u[p].calls) : IsUpgradeCall(u[p].calls[i]))
               => /\ u[p].backup = BackupFilename
                  /\ SubSeq(u[p].calls, 1, 2) = BackupCalls
                  /\ \A i \in 1..Len(u[p].calls) : IsUpgradeCall(u[p].calls[i]) => i > 2
            /\ (u[p].pc \notin {"idle", "backup"} /\ u[p].target # "" /\ u[p].backup = "")
               => /\ u[p].pc = "done"
                  /\ Steps(u[p]) = <<>>
                  /\ \A i \in 1..Len(u[p].calls) : ~IsUpgradeCall(u[p].calls[i])
                  /\ ~u[p].result.ok
                  /\ ApiUpdateResponse(u[p]).code = 500
                  /\ StartsWith(ApiUpdateResponse(u[p]).body.error, "Failed to create backup: ")
                  /\ container = u[p].before
            /\ (u[p].pc = "done" /\ u[p].result.ok)
               => ApiUpdateResponse(u[p]) =
                     Response(200, [success |-> TRUE, backup_filename |-> BackupFilename,
                                    container_id |-> u[p].new_id])

\* an update request whose backup returned and whose upgrade started the new
\* container
C15_Witness ==
    \E p \in Procs :
        /\ u[p].caller = "api_update" /\ u[p].pc = "done" /\ u[p].result.ok
        /\ u[p].backup = BackupFilename
        /\ Issued(u[p], "stop") /\ Issued(u[p], "start")

\* an update request whose backup failed
C15_BackupFailed ==
    \E p \in Procs :
        /\ u[p].caller = "api_update" /\ u[p].pc = "done" /\ u[p].target # ""
        /\ u[p].backup = "" /\ Len(u[p].calls) = 2

\* the routes whose view calls the manager
ManagerRoutes ==
    {"/", "/api/status", "/api/versions", "/api/check-upgrade", "/api/update",
     "/api/rollback", "/api/control"}

\* no manager operation is invoked, and none is in progress, for a request
\* whose session was not authenticated when it arrived
InvokedWhenAuthenticated ==
    /\ web.invoked # <<>> => web.request.authenticated
    /\ (\E p \in Procs : u[p].pc # "idle") =>
          /\ web.request.authenticated
          /\ web.request.route \in {"/api/update", "/api/rollback"}
    /\ (web.request.route \in ManagerRoutes /\ ~web.request.authenticated) =>
          /\ web.response = Redirect("login")
          /\ web.invoked = <<>>

\* /logout leaves its session unauthenticated
LoggedOut ==
    web.request.route = "/logout" => ~web.authenticated[web.request.session]

\* the step is a login POST of session s
LoginPost(s) ==
    /\ web'.request.session = s
    /\ web'.request.route = "/login"
    /\ web'.request.method = "POST"

\* a step in which session s becomes authenticated
Becomes(s) == ~web.authenticated[s] /\ web'.authenticated[s]

\* the configured password can be logged in with
Usable(expected) == expected # "" /\ expected # Placeholder

\* sessions become authenticated by a login POST only, with a password equal to
\* the configured one once surrounding blanks are stripped from both
AuthenticatedByLogin ==
    \A s \in Sessions :
        Becomes(s) =>
            /\ LoginPost(s)
            /\ Usable(web.expected) /\ Usable(Strip(web.expected))
            /\ Strip(web'.request.password) = Strip(web.expected)

\* the same, with the password as submitted equal to the variable as set
AuthenticatedByExactPassword ==
    \A s \in Sessions :
        Becomes(s) =>
            /\ LoginPost(s)
            /\ Usable(web.expected)
            /\ web'.request.password = web.expected

\* sessions lose the authentication by their own /logout only
UnauthenticatedByLogout ==
    \A s \in Sessions :
        (web.authenticated[s] /\ ~web'.authenticated[s]) =>
            web'.request.session = s /\ web'.request.route = "/logout"

\* C19 as stated: no manager operation is invoked for a request of an
\* unauthenticated session; a session becomes authenticated only by a login POST
\* whose password equals the configured DASHBOARD_PASSWORD, which is non-empty
\* and not the placeholder; logout makes the session unauthenticated again
C19_ExactPassword ==
    /\ [](InvokedWhenAuthenticated /\ LoggedOut)
    /\ [][AuthenticatedByExactPassword /\ UnauthenticatedByLogout]_vars

\* C19, amended: the same, with the password and the configured
\* DASHBOARD_PASSWORD compared after surrounding whitespace is stripped from both
C19_StrippedPassword ==
    /\ [](InvokedWhenAuthenticated /\ LoggedOut)
    /\ [][AuthenticatedByLogin /\ UnauthenticatedByLogout]_vars

\* one session has logged in with a password that differs from the configured
\* one by a trailing blank and has had a manager operation carried out, while
\* the other session, not logged in, has just been refused one
C19_Witness ==
    /\ \E s \in Sessions : web.authenticated[s] /\ ~web.authenticated[3 - s]
    /\ web.expected = "s3cret"
    /\ web.request.route \in ManagerRoutes
    /\ ~web.request.authenticated
    /\ web.response = Redirect("login")
    /\ container.exists /\ container.id > 1

\* both invocations have terminated
BothDone == \A p \in Racers : u[p].pc = "done"

\* neither invocation was given a callback that raises, nor met a host port
\* that is not a number
CleanRace ==
    \A p \in Racers :
        /\ u[p].cb.kind # "raises"
        /\ u[p].old.exists => ~PortsRaise(u[p].old.PortBindings)

\* C16: once two interleaved upgrades of one managed name have both terminated,
\* with engine calls failing only because of the other invocation, exactly one
\* container with the managed name exists and it has been started, and at
\* least one invocation has returned a container id
C16_RaceOutcome ==
    BothDone =>
        /\ container.exists
        /\ container.name = container_name
        /\ container.status = "running"
        /\ \E p \in Racers : u[p].result.ok /\ u[p].result.value = u[p].new_id


\* the same for the races in which neither invocation was given a raising
\* callback nor met a host port that is not a number
C16_CleanRaceOutcome ==
    (BothDone /\ CleanRace) =>
        /\ container.exists
        /\ container.name = container_name
        /\ container.status = "running"
        /\ \E p \in Racers : u[p].result.ok /\ u[p].result.value = u[p].new_id
        /\ \A p \in Racers : u[p].result.ok => u[p].new_id <= container.id

=============================================================================
